---- MODULE Spec2Model ----
(***************************************************************************)
(* Json-Fields: the recursive schema type system and its validator.        *)
(*                                                                         *)
(* A call of a validator is one step of the model: the receiver (`self`),  *)
(* the candidate JSON value (`arg`) and what the call produced (`out`).    *)
(* JSON values, serde_json numbers, schemas and error values are records   *)
(* whose field names follow the Rust types they stand for.                 *)
(***************************************************************************)
EXTENDS Integers, Sequences, FiniteSets, TLC

VARIABLES
    pc,     \* "idle": no call made; "done": a call returned; "again": the same call was repeated
    op,     \* which validator was called
    self,   \* the receiver of the call
    arg,    \* the candidate value
    out,    \* what the call produced
    prev    \* what the first call produced, once the call has been repeated

vars == <<pc, op, self, arg, out, prev>>

----------------------------------------------------------------------------
(* Bounds of the model. *)

\* longest candidate string, in code points
MaxStrLen == 2
\* largest minLength / maxLength of an AdvancedStringType
MaxLenCfg == 3
\* most variants of an AnyOfType
MaxVariants == 2
\* most items of a TupleType
MaxItems == 2
\* longest candidate array
MaxArrLen == 3
\* most declared keys of an object schema
MaxKeys == 2

\* keys of an object literal, elements of an array literal
MaxLiteralKeys == 3

MaxLiteralItems == 3

\* add_change calls on one Schema
MaxChanges == 3

\* parts of a JsonPath
MaxParts == 2

\* items of an array in a document under migration
MaxDocLen == 2

\* operations of a Migration
MaxOperations == 2

\* characters of a string handed to JsonPath::from_str
MaxPathStrLen == 4

----------------------------------------------------------------------------
(* Option<T>: None is the empty sequence, Some(x) the one-element sequence. *)

None == <<>>

Some(x) == <<x>>

IsSome(o) == Len(o) = 1

Unwrap(o) == o[1]

(* Result<(), E>, plus the two ways a call can end without a Result. *)

Ok == [ok |-> TRUE]

Err(e) == [ok |-> FALSE, err |-> e]

IsOk(r) == r = Ok

IsErr(r) == "err" \in DOMAIN r

\* todo!() / unreachable!() / expect(): the call unwinds instead of returning
Panicked(msg) == [panic |-> msg]

\* a match arm whose block ends in a statement: its value is (), not a Result
UnitValue == [unit |-> TRUE]

----------------------------------------------------------------------------
(* 64-bit magnitudes.  TLC's integers are 32 bits wide, so a magnitude is  *)
(* five 16-bit limbs, most significant first; the top limb is zero for     *)
(* everything a u64 or an i64 holds and non-zero only for floats beyond    *)
(* u64::MAX.                                                               *)

Limbs(a, b, c, d) == <<0, a, b, c, d>>

LimbZero == Limbs(0, 0, 0, 0)

LimbGt(x, y) ==
    \E i \in 1..5 : x[i] > y[i] /\ \A j \in 1..(i - 1) : x[j] = y[j]

LimbLe(x, y) == ~LimbGt(x, y)

\* u8::MAX, u16::MAX, u32::MAX, u64::MAX, i64::MAX as magnitudes
U8_MAX == Limbs(0, 0, 0, 255)

U16_MAX == Limbs(0, 0, 0, 65535)

U32_MAX == Limbs(0, 0, 65535, 65535)

U64_MAX == Limbs(65535, 65535, 65535, 65535)

I64_MAX == Limbs(32767, 65535, 65535, 65535)

----------------------------------------------------------------------------
(* serde_json::Number: N::PosInt(u64), N::NegInt(i64) (always negative) or *)
(* N::Float(f64) (always finite).  A float is its sign, the magnitude of   *)
(* its integer part and its first fractional digit.                        *)

PosInt(m) == [n |-> "PosInt", mag |-> m]

NegInt(m) == [n |-> "NegInt", mag |-> m]

Float(neg, m, tenths) == [n |-> "Float", mag |-> m, neg |-> neg, frac |-> tenths]

\* Number::as_u64: only a PosInt converts
as_u64(number) ==
    IF number.n = "PosInt" THEN Some(number.mag) ELSE None

\* Number::is_u64
is_u64(number) == number.n = "PosInt"

\* Number::as_i64: a PosInt converts when it is at most i64::MAX, a NegInt always, a Float never
as_i64(number) ==
    CASE number.n = "PosInt" ->
            IF LimbLe(number.mag, I64_MAX)
            THEN Some([neg |-> FALSE, mag |-> number.mag])
            ELSE None
      [] number.n = "NegInt" -> Some([neg |-> TRUE, mag |-> number.mag])
      [] OTHER -> None

\* Number::as_f64: every number converts (the integer's sign and zero-ness are kept)
as_f64(number) ==
    CASE number.n = "PosInt" -> Some(Float(FALSE, number.mag, 0))
      [] number.n = "NegInt" -> Some(Float(TRUE, number.mag, 0))
      [] OTHER -> Some(number)

\* value > 0_f64 (-0.0 and 0.0 are not)
F64GtZero(f) == ~f.neg /\ (f.mag # LimbZero \/ f.frac # 0)

\* the comparison taken as value <= 0_f64
F64LeZero(f) == ~F64GtZero(f)

\* value < 0_f64 (-0.0 and 0.0 are not)
F64LtZero(f) == f.neg /\ (f.mag # LimbZero \/ f.frac # 0)

----------------------------------------------------------------------------
(* serde_json::Value.  A string is its sequence of code points; an object  *)
(* is a function from its keys to their values.                            *)

Null == [kind |-> "null"]

Bool(b) == [kind |-> "bool", b |-> b]

Num(number) == [kind |-> "number", number |-> number]

Str(s) == [kind |-> "string", s |-> s]

Arr(items) == [kind |-> "array", items |-> items]

Obj(map) == [kind |-> "object", map |-> map]

EmptyMap == [k \in {} |-> Null]

\* bytes of the UTF-8 encoding of one code point
Utf8Len(cp) ==
    IF cp < 128 THEN 1 ELSE IF cp < 2048 THEN 2 ELSE IF cp < 65536 THEN 3 ELSE 4

RECURSIVE StrLen(_)
\* String::len: the length in bytes
StrLen(s) ==
    IF s = <<>> THEN 0 ELSE Utf8Len(Head(s)) + StrLen(Tail(s))

\* String::is_empty
StrIsEmpty(s) == s = <<>>

----------------------------------------------------------------------------
(* BasicType and BasicTypeValidationError *)

BasicTypes ==
    { "Any", "Boolean", "String", "FilledString", "Number", "PositiveNumber",
      "NegativeNumber", "U8", "U16", "U32", "U64", "I8", "I16", "I32", "I64",
      "Null", "Object", "Array", "Uuid", "Email" }

NumericTypes ==
    { "PositiveNumber", "NegativeNumber", "U8", "U16", "U32", "U64",
      "I8", "I16", "I32", "I64" }

\* the error variants that carry the offending Number
NumberError(variant, number) == [e |-> variant, number |-> number]

IncorrectType(basic_type, value) ==
    [e |-> "IncorrectType", expected |-> basic_type, got |-> value]

EmptyString == [e |-> "EmptyString"]

IncorrectUuid(s) == [e |-> "IncorrectUuid", text |-> s]

IncorrectEmail(s) == [e |-> "IncorrectEmail", text |-> s]

\* the limit taken as exclusive
ValidateUnsignedBelow(number, max, variant) ==
    LET value == as_u64(number) IN
    IF ~IsSome(value) THEN Err(NumberError(variant, number))
    ELSE IF ~LimbGt(max, Unwrap(value)) THEN Err(NumberError(variant, number))
    ELSE Ok

\* the unsigned arms U8, U16, U32: as_u64, then the upper limit
ValidateUnsigned(number, max, variant) ==
    LET value == as_u64(number) IN
    IF ~IsSome(value) THEN Err(NumberError(variant, number))
    ELSE IF LimbGt(Unwrap(value), max) THEN Err(NumberError(variant, number))
    ELSE Ok

\* BasicType::validate_number
validate_number(basic_type, number) ==
    CASE basic_type = "PositiveNumber" ->
            LET value == as_f64(number) IN
            IF ~IsSome(value) THEN Err(NumberError("NotAPositiveNumber", number))
            ELSE IF F64LtZero(Unwrap(value))
                 THEN Err(NumberError("NotAPositiveNumber", number))
                 ELSE Ok
      [] basic_type = "NegativeNumber" ->
            LET value == as_f64(number) IN
            IF ~IsSome(value) THEN Err(NumberError("NotANegativeNumber", number))
            ELSE IF F64GtZero(Unwrap(value))
                 THEN Err(NumberError("NotANegativeNumber", number))
                 ELSE Ok
      [] basic_type = "U8" -> ValidateUnsigned(number, U8_MAX, "NotAU8")
      [] basic_type = "U16" -> ValidateUnsigned(number, U16_MAX, "NotAU16")
      [] basic_type = "U32" -> ValidateUnsigned(number, U32_MAX, "NotAU32")
      [] basic_type = "U64" ->
            IF ~is_u64(number) THEN Err(NumberError("NotAU64", number)) ELSE Ok
      [] basic_type = "I8" ->
            \* the arm converts with as_i64 and ends there: no range check, no Ok
            IF ~IsSome(as_i64(number)) THEN Err(NumberError("NotAI8", number))
            ELSE UnitValue
      [] basic_type = "I16" -> Panicked("not yet implemented")
      [] basic_type = "I32" -> Panicked("not yet implemented")
      [] basic_type = "I64" -> Panicked("not yet implemented")
      [] OTHER -> Panicked("unreachable")

\* Uuid::from_str succeeds: 32 hexadecimal digits, plain or grouped by hyphens
\* (the braced and urn forms are longer still)
UuidParses(s) ==
    /\ Len(s) \in {32, 36, 38, 45}
    /\ \A i \in 1..Len(s) : s[i] < 128

\* serde_email::is_valid_email: at the least a local part, '@' (64) and a domain
IsValidEmail(s) ==
    \E i \in 2..(Len(s) - 1) : s[i] = 64

\* the error built without the offending value
KindMismatchNoValue(basic_type, value) == Err(IncorrectType(basic_type, Null))

\* the last arm of BasicType::validate: the matcher itself and a copy of the value
KindMismatch(basic_type, value) == Err(IncorrectType(basic_type, value))

\* BasicType::validate
BasicValidate(basic_type, value) ==
    CASE basic_type = "Any" -> Ok
      [] basic_type = "Null" /\ value.kind = "null" -> Ok
      [] basic_type = "Boolean" /\ value.kind = "bool" -> Ok
      [] basic_type = "Number" /\ value.kind = "number" -> Ok
      [] basic_type \in NumericTypes /\ value.kind = "number" ->
            validate_number(basic_type, value.number)
      [] basic_type = "String" /\ value.kind = "string" -> Ok
      [] basic_type = "FilledString" /\ value.kind = "string" ->
            IF StrIsEmpty(value.s) THEN Err(EmptyString) ELSE Ok
      [] basic_type = "Array" /\ value.kind = "array" -> Ok
      [] basic_type = "Object" /\ value.kind = "object" -> Ok
      [] basic_type = "Uuid" /\ value.kind = "string" ->
            IF UuidParses(value.s) THEN Ok ELSE Err(IncorrectUuid(value.s))
      [] basic_type = "Email" /\ value.kind = "string" ->
            IF ~IsValidEmail(value.s) THEN Err(IncorrectEmail(value.s)) ELSE Ok
      [] OTHER -> KindMismatch(basic_type, value)

----------------------------------------------------------------------------
(* AdvancedStringType and StringValidationError *)

AdvancedStringType(require_filled, min_length, max_length) ==
    [require_filled |-> require_filled, min_length |-> min_length, max_length |-> max_length]

\* shared::default_true, the serde default of require_filled
default_true == TRUE

\* AdvancedStringType::default
AdvancedStringDefault == AdvancedStringType(default_true, None, None)

StringError(variant) == [e |-> variant]

\* the minimum checked before the maximum
StringValidateMinFirst(string_type, value) ==
    IF value.kind # "string" THEN Err(StringError("NotAString"))
    ELSE IF StrIsEmpty(value.s) /\ string_type.require_filled THEN Err(StringError("RequireFilled"))
    ELSE IF IsSome(string_type.min_length) /\ StrLen(value.s) < Unwrap(string_type.min_length)
         THEN Err(StringError("StringTooShort"))
    ELSE IF IsSome(string_type.max_length) /\ StrLen(value.s) > Unwrap(string_type.max_length)
         THEN Err(StringError("StringTooLong"))
    ELSE Ok

\* AdvancedStringType::validate
StringValidate(string_type, value) ==
    IF value.kind # "string" THEN Err(StringError("NotAString"))
    ELSE IF StrIsEmpty(value.s) /\ string_type.require_filled THEN Err(StringError("RequireFilled"))
    ELSE IF IsSome(string_type.max_length) /\ StrLen(value.s) > Unwrap(string_type.max_length)
         THEN Err(StringError("StringTooLong"))
    ELSE IF IsSome(string_type.min_length) /\ StrLen(value.s) < Unwrap(string_type.min_length)
         THEN Err(StringError("StringTooShort"))
    ELSE Ok

----------------------------------------------------------------------------
(* SchemaType, Field, AdvancedType and its six components *)

Basic(basic_type) == [st |-> "Basic", basic |-> basic_type]

FieldSchema(field) == [st |-> "Field", field |-> field]

Advanced(advanced_type) == [st |-> "Advanced", adv |-> advanced_type]

ArrayShorthand(item) == [st |-> "Array", item |-> item]

TupleShorthand(items) == [st |-> "Tuple", tuple_items |-> items]

ObjectShorthand(map) == [st |-> "Object", object_map |-> map]

Field(field_type, label, hint) == [field_type |-> field_type, label |-> label, hint |-> hint]

AnyOfType(variants) == [variants |-> variants]

TupleType(items) == [items |-> items]

ArrayType(require_filled, items) == [require_filled |-> require_filled, items |-> items]

ObjectType(object) == [object |-> object]

OptionalType(kind) == [kind |-> kind]

AdvString(string_type) == [at |-> "String", string_type |-> string_type]

AdvAnyOf(any_of) == [at |-> "AnyOf", any_of |-> any_of]

AdvTuple(tuple_type) == [at |-> "Tuple", tuple_type |-> tuple_type]

AdvArray(array_type) == [at |-> "Array", array_type |-> array_type]

AdvObject(object_type) == [at |-> "Object", object_type |-> object_type]

AdvOptional(optional_type) == [at |-> "Optional", optional_type |-> optional_type]

(* HashMap<String, SchemaType>: its entries in the order the table holds   *)
(* them, which is the order an iteration visits them; keys are unique.     *)
(* Two maps are equal (PartialEq) when they hold the same entries.         *)

\* the orders a table can hold the keys K in
Orders(K) ==
    { o \in [1..Cardinality(K) -> K] : \A i, j \in 1..Cardinality(K) : i # j => o[i] # o[j] }

\* the table orders a freshly built HashMap can hold its entries in
TableOrders(map) ==
    { [i \in 1..Len(map) |-> map[o[i]]] : o \in Orders(1..Len(map)) }

Entry(key, schema) == [key |-> key, schema |-> schema]

MapKeys(map) == { map[i].key : i \in 1..Len(map) }

MapEntries(map) == { map[i] : i \in 1..Len(map) }

\* an order that changes from one validation to the next
HashMapIterUnstable(map) ==
    IF pc = "done" THEN [i \in 1..Len(map) |-> map[Len(map) + 1 - i]] ELSE map

\* `for (key, schema) in &self.object`: the table order, whatever was validated before
HashMapIter(map) == map

\* a clone that lays the entries out afresh, in another order
HashMapCloneRehashed(map) == [i \in 1..Len(map) |-> map[Len(map) + 1 - i]]

\* HashMap::clone copies the table slot by slot, hasher included: same order
HashMapClone(map) == map

(* The error enums *)

\* SchemaTypeValidationError::BasicTypeValidationError
SteBasic(e) == [ste |-> "BasicTypeValidationError", basic_error |-> e]

\* SchemaTypeValidationError::AdvancedTypeValidationError
SteAdvanced(e) == [ste |-> "AdvancedTypeValidationError", advanced_error |-> e]

AteString(e) == [ate |-> "StringValidationError", string_error |-> e]

AteAnyOf(e) == [ate |-> "AnyOfError", any_of_error |-> e]

AteTuple(e) == [ate |-> "TupleError", tuple_error |-> e]

AteArray(e) == [ate |-> "ArrayError", array_error |-> e]

AteObject(e) == [ate |-> "ObjectError", object_error |-> e]

\* AdvancedTypeValidationError::SchemaTypeValidationError(Box<..>)
AteSchema(e) == [ate |-> "SchemaTypeValidationError", boxed |-> e]

AnyOfTypeError(variants) == [any_of_variants |-> variants]

TupleNotAnArray == [e |-> "NotAnArray"]

\* TupleError::IncorrectLength(usize, usize): the two positional fields
IncorrectLength(f0, f1) == [e |-> "IncorrectLength", f0 |-> f0, f1 |-> f1]

\* Display of TupleError, the text in its fragments: the format strings of
\* NotAnArray and IncorrectLength with {0} and {1} filled in
TupleErrorDisplay(err) ==
    IF err.e = "NotAnArray"
    THEN <<"Expected an array">>
    ELSE <<"Expected an array with ", ToString(err.f0),
           " items, but got an array with ", ToString(err.f1), " items">>

\* From<SchemaTypeValidationError> for TupleError
TupleBoxed(e) == [e |-> "SchemaTypeValidationError", boxed |-> e]

ArrayNotAnArray == [e |-> "NotAnArray"]

ArrayRequireFilled == [e |-> "RequireFilled"]

\* From<SchemaTypeValidationError> for ArrayTypeError
ArrayBoxed(e) == [e |-> "SchemaTypeValidationError", boxed |-> e]

NotAnObject == [e |-> "NotAnObject"]

MissingObjectKey(key) == [e |-> "MissingObjectKey", key |-> key]

\* From<SchemaTypeValidationError> for ObjectTypeError
ObjectBoxed(e) == [e |-> "SchemaTypeValidationError", boxed |-> e]

(* A validator's run: its result and, in order, every SchemaType::validate *)
(* call made on the way (schema and candidate).                            *)

Call(schema, value) == [schema |-> schema, value |-> value]

Run(res, calls) == [res |-> res, calls |-> calls]

\* `?` and map_err: an Err is converted, anything else passes through
ConvertErr(r, F(_)) == IF IsErr(r) THEN Err(F(r.err)) ELSE r

RECURSIVE SchemaValidate(_, _)
RECURSIVE AdvancedValidate(_, _)
RECURSIVE FieldValidate(_, _)
RECURSIVE AnyOfValidate(_, _)
RECURSIVE AnyOfLoop(_, _, _)
RECURSIVE TupleValidate(_, _)
RECURSIVE TupleLoop(_, _, _)
RECURSIVE ArrayValidate(_, _)
RECURSIVE ArrayLoop(_, _, _)
RECURSIVE ObjectValidate(_, _)
RECURSIVE ObjectLoop(_, _, _)
RECURSIVE OptionalValidate(_, _)

\* every variant tried, whether or not an earlier one validated
AnyOfLoopNoStop(any_of, value, i) ==
    IF i > Len(any_of.variants)
    THEN Run(Err(AnyOfTypeError(any_of.variants)), <<>>)
    ELSE LET r == SchemaValidate(any_of.variants[i], value)
             rest == AnyOfLoop(any_of, value, i + 1)
         IN Run(IF IsOk(r.res) THEN Ok ELSE rest.res, r.calls \o rest.calls)

\* the error built from the variants that failed last
AnyOfLoopLastVariant(any_of, value, i) ==
    IF i > Len(any_of.variants)
    THEN Run(Err(AnyOfTypeError(IF any_of.variants = <<>> THEN <<>>
                                ELSE <<any_of.variants[Len(any_of.variants)]>>)), <<>>)
    ELSE LET r == SchemaValidate(any_of.variants[i], value) IN
         IF IsOk(r.res) \/ ~IsErr(r.res)
         THEN r
         ELSE LET rest == AnyOfLoop(any_of, value, i + 1) IN
              Run(rest.res, r.calls \o rest.calls)

\* AnyOfType::validate, the loop from variant i on
AnyOfLoop(any_of, value, i) ==
    IF i > Len(any_of.variants)
    THEN Run(Err(AnyOfTypeError(any_of.variants)), <<>>)
    ELSE LET r == SchemaValidate(any_of.variants[i], value) IN
         IF IsOk(r.res) \/ ~IsErr(r.res)
         THEN r
         ELSE LET rest == AnyOfLoop(any_of, value, i + 1) IN
              Run(rest.res, r.calls \o rest.calls)

\* AnyOfType::validate
AnyOfValidate(any_of, value) == AnyOfLoop(any_of, value, 1)

\* every position validated, the error being the one of the last failing position
TupleLoopKeepGoing(tuple_type, value, i) ==
    IF i > Len(tuple_type.items) \/ i > Len(value.items)
    THEN Run(Ok, <<>>)
    ELSE LET r == SchemaValidate(tuple_type.items[i], value.items[i])
             rest == TupleLoop(tuple_type, value, i + 1)
         IN Run(IF IsOk(rest.res) THEN ConvertErr(r.res, TupleBoxed) ELSE rest.res,
                r.calls \o rest.calls)

\* TupleType::validate, the loop from position i on (i counts from 1)
TupleLoop(tuple_type, value, i) ==
    IF i > Len(tuple_type.items)
    THEN Run(Ok, <<>>)
    ELSE IF i > Len(value.items)
    THEN Run(Panicked("Both vecs should be the same size, so this should never be None"), <<>>)
    ELSE LET r == SchemaValidate(tuple_type.items[i], value.items[i]) IN
         IF ~IsOk(r.res)
         THEN Run(ConvertErr(r.res, TupleBoxed), r.calls)
         ELSE LET rest == TupleLoop(tuple_type, value, i + 1) IN
              Run(rest.res, r.calls \o rest.calls)

\* the two lengths reported the other way round
TupleValidateSwapped(tuple_type, value) ==
    IF value.kind # "array" THEN Run(Err(TupleNotAnArray), <<>>)
    ELSE IF Len(value.items) # Len(tuple_type.items)
    THEN Run(Err(IncorrectLength(Len(tuple_type.items), Len(value.items))), <<>>)
    ELSE TupleLoop(tuple_type, value, 1)

\* TupleType::validate
TupleValidate(tuple_type, value) ==
    IF value.kind # "array" THEN Run(Err(TupleNotAnArray), <<>>)
    ELSE IF Len(value.items) # Len(tuple_type.items)
    THEN Run(Err(IncorrectLength(Len(value.items), Len(tuple_type.items))), <<>>)
    ELSE TupleLoop(tuple_type, value, 1)

\* every element validated, the error being the one of the last failing element
ArrayLoopKeepGoing(array_type, items, i) ==
    IF i > Len(items)
    THEN Run(Ok, <<>>)
    ELSE LET r == SchemaValidate(array_type.items, items[i])
             rest == ArrayLoop(array_type, items, i + 1)
         IN Run(IF IsOk(rest.res) THEN ConvertErr(r.res, ArrayBoxed) ELSE rest.res,
                r.calls \o rest.calls)

\* ArrayType::validate, the loop from element i on
ArrayLoop(array_type, items, i) ==
    IF i > Len(items)
    THEN Run(Ok, <<>>)
    ELSE LET r == SchemaValidate(array_type.items, items[i]) IN
         IF ~IsOk(r.res)
         THEN Run(ConvertErr(r.res, ArrayBoxed), r.calls)
         ELSE LET rest == ArrayLoop(array_type, items, i + 1) IN
              Run(rest.res, r.calls \o rest.calls)

\* ArrayType::validate
ArrayValidate(array_type, value) ==
    IF value.kind # "array" THEN Run(Err(ArrayNotAnArray), <<>>)
    ELSE IF value.items = <<>> /\ array_type.require_filled
    THEN Run(Err(ArrayRequireFilled), <<>>)
    ELSE ArrayLoop(array_type, value.items, 1)

\* a missing Optional key skipped, the loop going on with the next entry
ObjectLoopSkipOptional(entries, target_map, i) ==
    IF i > Len(entries)
    THEN Run(Ok, <<>>)
    ELSE LET key == entries[i].key
             schema == entries[i].schema
         IN
         IF key \notin DOMAIN target_map
         THEN IF schema.st = "Advanced" /\ schema.adv.at = "Optional"
              THEN ObjectLoop(entries, target_map, i + 1)
              ELSE Run(Err(MissingObjectKey(key)), <<>>)
         ELSE LET r == SchemaValidate(schema, target_map[key]) IN
              IF ~IsOk(r.res)
              THEN Run(ConvertErr(r.res, ObjectBoxed), r.calls)
              ELSE LET rest == ObjectLoop(entries, target_map, i + 1) IN
                   Run(rest.res, r.calls \o rest.calls)

\* a missing key tolerated whenever its schema accepts null
ObjectLoopNullTolerant(entries, target_map, i) ==
    IF i > Len(entries)
    THEN Run(Ok, <<>>)
    ELSE LET key == entries[i].key
             schema == entries[i].schema
         IN
         IF key \notin DOMAIN target_map
         THEN IF IsOk(SchemaValidate(schema, Null).res)
              THEN Run(Ok, <<>>)
              ELSE Run(Err(MissingObjectKey(key)), <<>>)
         ELSE LET r == SchemaValidate(schema, target_map[key]) IN
              IF ~IsOk(r.res)
              THEN Run(ConvertErr(r.res, ObjectBoxed), r.calls)
              ELSE LET rest == ObjectLoop(entries, target_map, i + 1) IN
                   Run(rest.res, r.calls \o rest.calls)

\* ObjectType::validate, the loop from the i-th visited entry on
ObjectLoop(entries, target_map, i) ==
    IF i > Len(entries)
    THEN Run(Ok, <<>>)
    ELSE LET key == entries[i].key
             schema == entries[i].schema
         IN
         IF key \notin DOMAIN target_map
         THEN IF schema.st = "Advanced" /\ schema.adv.at = "Optional"
              THEN Run(Ok, <<>>)
              ELSE Run(Err(MissingObjectKey(key)), <<>>)
         ELSE LET r == SchemaValidate(schema, target_map[key]) IN
              IF ~IsOk(r.res)
              THEN Run(ConvertErr(r.res, ObjectBoxed), r.calls)
              ELSE LET rest == ObjectLoop(entries, target_map, i + 1) IN
                   Run(rest.res, r.calls \o rest.calls)

\* every declared key looked up before any value is validated
ObjectValidateMissingFirst(object_type, value) ==
    IF value.kind # "object" THEN Run(Err(NotAnObject), <<>>)
    ELSE LET entries == HashMapIter(object_type.object)
             missing == { i \in 1..Len(entries) :
                            /\ entries[i].key \notin DOMAIN value.map
                            /\ ~(entries[i].schema.st = "Advanced"
                                    /\ entries[i].schema.adv.at = "Optional") }
         IN IF missing # {}
            THEN Run(Err(MissingObjectKey(
                        entries[CHOOSE i \in missing : \A j \in missing : i <= j].key)), <<>>)
            ELSE ObjectLoop(entries, value.map, 1)

\* a candidate key the schema does not declare refused
ObjectValidateDenyUnknown(object_type, value) ==
    IF value.kind # "object" THEN Run(Err(NotAnObject), <<>>)
    ELSE LET unknown == DOMAIN value.map \ MapKeys(object_type.object) IN
         IF unknown # {}
         THEN Run(Err(MissingObjectKey(CHOOSE k \in unknown : TRUE)), <<>>)
         ELSE ObjectLoop(HashMapIter(object_type.object), value.map, 1)

\* ObjectType::validate
ObjectValidate(object_type, value) ==
    IF value.kind # "object" THEN Run(Err(NotAnObject), <<>>)
    ELSE ObjectLoop(HashMapIter(object_type.object), value.map, 1)

\* null handed to the wrapped schema like any other candidate
OptionalValidateNoNull(optional_type, value) == SchemaValidate(optional_type.kind, value)

\* OptionalType::validate
OptionalValidate(optional_type, value) ==
    IF value.kind = "null" THEN Run(Ok, <<>>)
    ELSE SchemaValidate(optional_type.kind, value)

\* Validator for Field
FieldValidate(field, value) == SchemaValidate(field.field_type, value)

\* AdvancedType::validate
AdvancedValidate(advanced_type, value) ==
    CASE advanced_type.at = "String" ->
            Run(ConvertErr(StringValidate(advanced_type.string_type, value), AteString), <<>>)
      [] advanced_type.at = "AnyOf" ->
            LET r == AnyOfValidate(advanced_type.any_of, value) IN
            Run(ConvertErr(r.res, AteAnyOf), r.calls)
      [] advanced_type.at = "Tuple" ->
            LET r == TupleValidate(advanced_type.tuple_type, value) IN
            Run(ConvertErr(r.res, AteTuple), r.calls)
      [] advanced_type.at = "Array" ->
            LET r == ArrayValidate(advanced_type.array_type, value) IN
            Run(ConvertErr(r.res, AteArray), r.calls)
      [] advanced_type.at = "Object" ->
            LET r == ObjectValidate(advanced_type.object_type, value) IN
            Run(ConvertErr(r.res, AteObject), r.calls)
      [] advanced_type.at = "Optional" ->
            LET r == OptionalValidate(advanced_type.optional_type, value) IN
            Run(ConvertErr(r.res, AteSchema), r.calls)

\* the ArrayType built with the explicit form's default
ShorthandArrayTypeFilled(item) == ArrayType(default_true, item)

\* the ArrayType SchemaType::validate builds for the Array shorthand
ShorthandArrayType(item) == ArrayType(FALSE, item)

\* what SchemaType::validate returns for each variant
SchemaDispatch(schema, value) ==
    CASE schema.st = "Basic" ->
            Run(ConvertErr(BasicValidate(schema.basic, value), SteBasic), <<>>)
      [] schema.st = "Field" -> FieldValidate(schema.field, value)
      [] schema.st = "Advanced" ->
            LET r == AdvancedValidate(schema.adv, value) IN
            Run(ConvertErr(r.res, SteAdvanced), r.calls)
      [] schema.st = "Array" ->
            LET array_type == ShorthandArrayType(schema.item)
                r == ArrayValidate(array_type, value)
                wrap(error) == SteAdvanced(AteArray(error))
            IN Run(ConvertErr(r.res, wrap), r.calls)
      [] schema.st = "Tuple" ->
            LET tuple_type == TupleType(schema.tuple_items)
                r == TupleValidate(tuple_type, value)
                wrap(error) == SteAdvanced(AteTuple(error))
            IN Run(ConvertErr(r.res, wrap), r.calls)
      [] schema.st = "Object" ->
            LET object_type == ObjectType(HashMapClone(schema.object_map))
                r == ObjectValidate(object_type, value)
                wrap(error) == SteAdvanced(AteObject(error))
            IN Run(ConvertErr(r.res, wrap), r.calls)

\* SchemaType::validate: the call itself is recorded, then the calls it makes
SchemaValidate(schema, value) ==
    LET r == SchemaDispatch(schema, value) IN
    Run(r.res, <<Call(schema, value)>> \o r.calls)

----------------------------------------------------------------------------
(* Deserialize, as serde derives it, from a serde_json::Value holding a    *)
(* schema literal.  In a literal a string is written as itself ("string",  *)
(* "Name"), not as code points.  A deserializer returns Ok(value) or an    *)
(* error; which error is not modelled.                                     *)

DeOk(value) == [ok |-> TRUE, val |-> value]

DeError == [ok |-> FALSE, err |-> [e |-> "DeserializeError"]]

\* the name of each BasicType variant under rename_all = "camelCase"
BasicTypeName ==
    [t \in BasicTypes |->
        CASE t = "Any" -> "any" [] t = "Boolean" -> "boolean" [] t = "String" -> "string"
          [] t = "FilledString" -> "filledString" [] t = "Number" -> "number"
          [] t = "PositiveNumber" -> "positiveNumber"
          [] t = "NegativeNumber" -> "negativeNumber"
          [] t = "U8" -> "u8" [] t = "U16" -> "u16" [] t = "U32" -> "u32" [] t = "U64" -> "u64"
          [] t = "I8" -> "i8" [] t = "I16" -> "i16" [] t = "I32" -> "i32" [] t = "I64" -> "i64"
          [] t = "Null" -> "null" [] t = "Object" -> "object" [] t = "Array" -> "array"
          [] t = "Uuid" -> "uuid" [] t = "Email" -> "email"]

\* the BasicType variants a name selects: one or none
BasicTypeNamed(name) == { t \in BasicTypes : BasicTypeName[t] = name }

\* the tag of each AdvancedType variant under rename_all = "camelCase"
AdvancedTags == {"string", "anyOf", "tuple", "array", "object", "optional"}

\* BasicType, an enum of unit variants: the variant's name as a string, or a
\* map of one entry whose key is the name and whose value is the unit (null)
DeserializeBasicType(v) ==
    IF v.kind = "string"
    THEN IF BasicTypeNamed(v.s) # {}
         THEN DeOk(CHOOSE t \in BasicTypeNamed(v.s) : TRUE) ELSE DeError
    ELSE IF v.kind = "object" /\ Cardinality(DOMAIN v.map) = 1
    THEN LET k == CHOOSE key \in DOMAIN v.map : TRUE IN
         IF BasicTypeNamed(k) # {} /\ v.map[k].kind = "null"
         THEN DeOk(CHOOSE t \in BasicTypeNamed(k) : TRUE) ELSE DeError
    ELSE DeError

\* bool
DeserializeBool(v) == IF v.kind = "bool" THEN DeOk(v.b) ELSE DeError

\* a usize small enough for the model: the two low limbs of an unsigned integer
UsizeOf(number) == number.mag[4] * 65536 + number.mag[5]

\* Option<usize>: null is None, an unsigned integer n is Some(n)
DeserializeOptionUsize(v) ==
    IF v.kind = "null" THEN DeOk(None)
    ELSE IF v.kind = "number" /\ is_u64(v.number) THEN DeOk(Some(UsizeOf(v.number)))
    ELSE DeError

\* Option<String>: null is None, a string s is Some(s)
DeserializeOptionString(v) ==
    IF v.kind = "null" THEN DeOk(None)
    ELSE IF v.kind = "string" THEN DeOk(Some(v.s))
    ELSE DeError

\* the fields of a struct read from a sequence, named in declaration order;
\* a field beyond the end of the sequence is absent, an element beyond the
\* last field is an error
SeqFields(items, names) ==
    [k \in { names[i] : i \in 1..Len(items) } |->
        items[CHOOSE i \in 1..Len(items) : names[i] = k]]

\* AdvancedStringType (rename_all = "camelCase"; require_filled defaults to
\* default_true; an Option field missing from a map is None, from a sequence
\* an error)
DeserializeAdvancedStringType(fields, from_seq) ==
    LET rf == IF "requireFilled" \in DOMAIN fields
              THEN DeserializeBool(fields["requireFilled"]) ELSE DeOk(default_true)
        mn == IF "minLength" \in DOMAIN fields
              THEN DeserializeOptionUsize(fields["minLength"])
              ELSE IF from_seq THEN DeError ELSE DeOk(None)
        mx == IF "maxLength" \in DOMAIN fields
              THEN DeserializeOptionUsize(fields["maxLength"])
              ELSE IF from_seq THEN DeError ELSE DeOk(None)
    IN IF rf.ok /\ mn.ok /\ mx.ok
       THEN DeOk(AdvancedStringType(rf.val, mn.val, mx.val)) ELSE DeError

RECURSIVE DeserializeSchemaType(_)
RECURSIVE DeserializeVec(_)
RECURSIVE DeserializeHashMap(_)
RECURSIVE DeserializeField(_)
RECURSIVE DeserializeAdvancedType(_)
RECURSIVE DeserializeVariant(_, _, _)

\* Vec<SchemaType>: a sequence whose elements all deserialize
DeserializeVec(v) ==
    IF v.kind # "array" THEN DeError
    ELSE LET rs == [i \in 1..Len(v.items) |-> DeserializeSchemaType(v.items[i])] IN
         IF \A i \in 1..Len(rs) : rs[i].ok
         THEN DeOk([i \in 1..Len(rs) |-> rs[i].val]) ELSE DeError

\* the key "$" left out of the map
DeserializeHashMapNoDollar(v) ==
    IF v.kind # "object" THEN DeError
    ELSE LET rs == [k \in DOMAIN v.map |-> DeserializeSchemaType(v.map[k])]
             order == CHOOSE o \in Orders(DOMAIN v.map \ {"$"}) : TRUE
         IN IF \A k \in DOMAIN rs : rs[k].ok
            THEN DeOk([i \in 1..Len(order) |-> Entry(order[i], rs[order[i]].val)])
            ELSE DeError

\* HashMap<String, SchemaType>: a map whose values all deserialize; the
\* table holds the entries in an order of its own
DeserializeHashMap(v) ==
    IF v.kind # "object" THEN DeError
    ELSE LET rs == [k \in DOMAIN v.map |-> DeserializeSchemaType(v.map[k])]
             order == CHOOSE o \in Orders(DOMAIN v.map) : TRUE
         IN IF \A k \in DOMAIN rs : rs[k].ok
            THEN DeOk([i \in 1..Len(order) |-> Entry(order[i], rs[order[i]].val)])
            ELSE DeError

\* the struct behind a tag, from its fields: no rename_all on TupleType,
\* ArrayType, ObjectType and OptionalType, so their fields keep their Rust
\* names, but for `kind`, renamed "type"; unknown fields are ignored
DeserializeVariant(tag, fields, from_seq) ==
    CASE tag = "string" ->
            LET r == DeserializeAdvancedStringType(fields, from_seq) IN
            IF r.ok THEN DeOk(AdvString(r.val)) ELSE DeError
      [] tag = "anyOf" ->
            LET r == IF "variants" \in DOMAIN fields
                     THEN DeserializeVec(fields["variants"]) ELSE DeError
            IN IF r.ok THEN DeOk(AdvAnyOf(AnyOfType(r.val))) ELSE DeError
      [] tag = "tuple" ->
            LET r == IF "items" \in DOMAIN fields
                     THEN DeserializeVec(fields["items"]) ELSE DeError
            IN IF r.ok THEN DeOk(AdvTuple(TupleType(r.val))) ELSE DeError
      [] tag = "array" ->
            LET rf == IF "require_filled" \in DOMAIN fields
                      THEN DeserializeBool(fields["require_filled"]) ELSE DeOk(default_true)
                r == IF "items" \in DOMAIN fields
                     THEN DeserializeSchemaType(fields["items"]) ELSE DeError
            IN IF rf.ok /\ r.ok THEN DeOk(AdvArray(ArrayType(rf.val, r.val))) ELSE DeError
      [] tag = "object" ->
            LET r == IF "object" \in DOMAIN fields
                     THEN DeserializeHashMap(fields["object"]) ELSE DeError
            IN IF r.ok THEN DeOk(AdvObject(ObjectType(r.val))) ELSE DeError
      [] tag = "optional" ->
            LET r == IF "type" \in DOMAIN fields
                     THEN DeserializeSchemaType(fields["type"]) ELSE DeError
            IN IF r.ok THEN DeOk(AdvOptional(OptionalType(r.val))) ELSE DeError
      [] OTHER -> DeError

\* the fields of each variant's struct, in declaration order
VariantFields(tag) ==
    CASE tag = "string" -> <<"requireFilled", "minLength", "maxLength">>
      [] tag = "anyOf" -> <<"variants">>
      [] tag = "tuple" -> <<"items">>
      [] tag = "array" -> <<"require_filled", "items">>
      [] tag = "object" -> <<"object">>
      [] tag = "optional" -> <<"type">>

\* AdvancedType, tagged internally with "$": a map holding the tag, the
\* other entries being the struct's fields, or a sequence whose first
\* element is the tag, the others being the struct's fields in order.  The
\* tag is a variant's name; tags written otherwise are not modelled.
DeserializeAdvancedType(v) ==
    IF v.kind = "object"
    THEN IF "$" \in DOMAIN v.map /\ v.map["$"].kind = "string"
                /\ v.map["$"].s \in AdvancedTags
         THEN DeserializeVariant(v.map["$"].s,
                                 [k \in DOMAIN v.map \ {"$"} |-> v.map[k]], FALSE)
         ELSE DeError
    ELSE IF v.kind = "array"
    THEN IF v.items # <<>> /\ v.items[1].kind = "string" /\ v.items[1].s \in AdvancedTags
                /\ Len(v.items) - 1 <= Len(VariantFields(v.items[1].s))
         THEN DeserializeVariant(v.items[1].s,
                                 SeqFields(Tail(v.items), VariantFields(v.items[1].s)), TRUE)
         ELSE DeError
    ELSE DeError

\* Field: "?" (field_type), "label" and an optional "hint", from a map, or
\* the three in this order from a sequence; unknown keys are ignored
DeserializeField(v) ==
    LET fields == IF v.kind = "object" THEN v.map
                  ELSE SeqFields(v.items, <<"?", "label", "hint">>)
        ft == IF "?" \in DOMAIN fields THEN DeserializeSchemaType(fields["?"]) ELSE DeError
        hint == IF "hint" \in DOMAIN fields THEN DeserializeOptionString(fields["hint"])
                ELSE IF v.kind = "array" THEN DeError ELSE DeOk(None)
    IN IF v.kind \notin {"object", "array"} THEN DeError
       ELSE IF v.kind = "array" /\ Len(v.items) > 3 THEN DeError
       ELSE IF /\ ft.ok /\ hint.ok
               /\ "label" \in DOMAIN fields /\ fields["label"].kind = "string"
       THEN DeOk(Field(ft.val, fields["label"].s, hint.val))
       ELSE DeError

\* SchemaType, untagged: the variants tried in declaration order, the first
\* that deserializes being the result
DeserializeSchemaType(v) ==
    LET basic == DeserializeBasicType(v) IN
    IF basic.ok THEN DeOk(Basic(basic.val)) ELSE
    LET field == DeserializeField(v) IN
    IF field.ok THEN DeOk(FieldSchema(field.val)) ELSE
    LET advanced == DeserializeAdvancedType(v) IN
    IF advanced.ok THEN DeOk(Advanced(advanced.val)) ELSE
    LET item == IF v.kind = "array" /\ Len(v.items) = 1
                THEN DeserializeSchemaType(v.items[1]) ELSE DeError
    IN
    IF item.ok THEN DeOk(ArrayShorthand(item.val)) ELSE
    LET items == DeserializeVec(v) IN
    IF items.ok THEN DeOk(TupleShorthand(items.val)) ELSE
    LET map == DeserializeHashMap(v) IN
    IF map.ok THEN DeOk(ObjectShorthand(map.val)) ELSE DeError

----------------------------------------------------------------------------
(* The inputs of the calls *)

\* sequences over S of length at most n
SeqsUpTo(S, n) == UNION { [1..k -> S] : k \in 0..n }

\* 'a' (one byte) and U+00E9 (two bytes)
CodePoints == {97, 233}

Strings == SeqsUpTo(CodePoints, MaxStrLen)

Numbers ==
    { PosInt(LimbZero), PosInt(Limbs(0, 0, 0, 1)), PosInt(Limbs(0, 0, 0, 10)),
      PosInt(U8_MAX), PosInt(Limbs(0, 0, 0, 256)),
      PosInt(U16_MAX), PosInt(Limbs(0, 0, 1, 0)),
      PosInt(U32_MAX), PosInt(Limbs(0, 1, 0, 0)),
      PosInt(I64_MAX), PosInt(Limbs(32768, 0, 0, 0)), PosInt(U64_MAX),
      NegInt(Limbs(0, 0, 0, 1)), NegInt(Limbs(0, 0, 0, 128)), NegInt(Limbs(0, 0, 0, 129)),
      NegInt(Limbs(0, 0, 0, 32768)), NegInt(Limbs(0, 0, 0, 32769)),
      NegInt(Limbs(0, 0, 32768, 0)), NegInt(Limbs(0, 0, 32768, 1)),
      NegInt(Limbs(32768, 0, 0, 0)),
      Float(FALSE, LimbZero, 0), Float(TRUE, LimbZero, 0),
      Float(FALSE, Limbs(0, 0, 0, 1), 0), Float(TRUE, Limbs(0, 0, 0, 1), 0),
      Float(FALSE, Limbs(0, 0, 0, 1), 1), Float(TRUE, Limbs(0, 0, 0, 1), 1),
      Float(FALSE, Limbs(0, 0, 0, 255), 5),
      Float(FALSE, <<1, 0, 0, 0, 0>>, 0), Float(TRUE, <<1, 0, 0, 0, 0>>, 0) }

\* candidates of the leaf validators: every JSON kind
LeafValues ==
    {Null, Bool(TRUE), Bool(FALSE)}
        \cup { Num(x) : x \in Numbers }
        \cup { Str(s) : s \in Strings }
        \cup { Arr(<<>>), Arr(<<Str(<<97>>)>>), Arr(<<Num(PosInt(Limbs(0, 0, 0, 10)))>>) }
        \cup { Obj(EmptyMap), Obj([k \in {"name"} |-> Str(<<97>>)]),
               Obj([k \in {"age"} |-> Num(PosInt(Limbs(0, 0, 0, 10)))]) }

LengthOptions == {None} \cup { Some(k) : k \in 0..MaxLenCfg }

StringTypes ==
    { AdvancedStringType(rf, mn, mx) :
        rf \in BOOLEAN, mn \in LengthOptions, mx \in LengthOptions }

StringCandidates ==
    { Str(s) : s \in Strings } \cup {Null, Num(PosInt(Limbs(0, 0, 0, 10))), Arr(<<>>)}

\* the element values of candidate arrays and objects: "", 10 and null
ElemValues == {Str(<<>>), Num(PosInt(Limbs(0, 0, 0, 10))), Null}

LeafSchemas == {Basic("String"), Basic("Number"), Basic("Null")}

\* the variants of an AnyOfType: leaves and AnyOf types of leaves
VariantPool ==
    LeafSchemas
        \cup { Advanced(AdvAnyOf(AnyOfType(vs))) : vs \in SeqsUpTo(LeafSchemas, 1) }

AnyOfTypes == { AnyOfType(vs) : vs \in SeqsUpTo(VariantPool, MaxVariants) }

AnyOfCandidates ==
    ElemValues \cup {Str(<<97>>), Bool(TRUE), Arr(<<>>), Obj(EmptyMap)}

TupleTypes == { TupleType(items) : items \in SeqsUpTo(LeafSchemas, MaxItems) }

ArrayValues == { Arr(items) : items \in SeqsUpTo(ElemValues, MaxArrLen) }

ArrayTypes == { ArrayType(rf, s) : rf \in BOOLEAN, s \in LeafSchemas }

OptionalTypes ==
    { OptionalType(s) :
        s \in LeafSchemas \cup { Advanced(AdvString(AdvancedStringDefault)) }
                \cup { TupleShorthand(items) : items \in SeqsUpTo(LeafSchemas, 1) } }

OptionalCandidates ==
    ElemValues \cup {Str(<<97>>), Bool(FALSE), Arr(<<>>), Arr(<<Null>>), Obj(EmptyMap)}

TupleCandidates == ArrayValues \cup {Null, Str(<<>>), Obj(EmptyMap)}

\* the declared keys "k1", "k2", ...; "extra" is a key no schema declares
Keys == { "k" \o ToString(i) : i \in 1..MaxKeys }

\* the schemas a key is declared with: required ones and a directly optional one
KeySchemas ==
    {Basic("String"), Basic("Number"), Advanced(AdvOptional(OptionalType(Basic("String"))))}

\* every HashMap over a subset of Keys, in every table order
HashMaps ==
    UNION { UNION { { [i \in 1..Len(o) |-> Entry(o[i], f[o[i]])] : o \in Orders(K) } :
                    f \in [K -> KeySchemas] } :
            K \in SUBSET Keys }

ObjectTypes == { ObjectType(map) : map \in HashMaps }

\* schemas other than a direct Optional that accept null
NullableSchemas ==
    { FieldSchema(Field(Advanced(AdvOptional(OptionalType(Basic("String")))), "Name", None)),
      Advanced(AdvAnyOf(AnyOfType(<<Basic("Null"), Basic("String")>>))),
      Basic("Any"), Basic("Null") }

\* the maps declaring one key with such a schema, in every table order
NullableHashMaps ==
    UNION { UNION { UNION { { [i \in 1..Len(o) |->
                                Entry(o[i], IF o[i] = nullable THEN s ELSE f[o[i]])] :
                              o \in Orders(K) } :
                            f \in [K -> {Basic("String"),
                                         Advanced(AdvOptional(OptionalType(Basic("String"))))}] } :
                    nullable \in K, s \in NullableSchemas } :
            K \in SUBSET Keys }

NullableObjectTypes == { ObjectType(map) : map \in NullableHashMaps }

ObjectValues ==
    UNION { { Obj(f) : f \in [K -> ElemValues] } : K \in SUBSET (Keys \cup {"extra"}) }

ObjectCandidates == ObjectValues \cup {Null, Str(<<>>), Arr(<<>>)}

\* the schemas SchemaType::validate is called on: every variant, over leaves
SchemaPool ==
    LeafSchemas
        \cup { FieldSchema(Field(s, "Name", None)) : s \in LeafSchemas }
        \cup { Advanced(AdvString(AdvancedStringDefault)) }
        \cup { Advanced(AdvAnyOf(a)) : a \in { AnyOfType(vs) : vs \in SeqsUpTo(LeafSchemas, MaxVariants) } }
        \cup { Advanced(AdvTuple(t)) : t \in TupleTypes }
        \cup { Advanced(AdvArray(ArrayType(rf, s))) : rf \in BOOLEAN, s \in LeafSchemas }
        \cup { Advanced(AdvObject(o)) : o \in ObjectTypes }
        \cup { Advanced(AdvOptional(OptionalType(s))) : s \in LeafSchemas }
        \cup { ArrayShorthand(s) : s \in LeafSchemas }
        \cup { TupleShorthand(t.items) : t \in TupleTypes }
        \cup { ObjectShorthand(map) : map \in HashMaps }

SchemaCandidates ==
    ElemValues \cup { Arr(items) : items \in SeqsUpTo(ElemValues, 2) } \cup ObjectValues


\* the number 10 and the strings of a literal
Ten == Num(PosInt(Limbs(0, 0, 0, 10)))

OptionalLiteral == Obj([k \in {"$", "type"} |-> IF k = "$" THEN Str("optional") ELSE Str("string")])

\* the keys of object literals: the discriminants, the fields of the forms
\* in both spellings, a basic type's name and an ordinary key
LiteralKeys ==
    { "$", "?", "label", "name", "items", "type", "requireFilled", "require_filled",
      "minLength", "string" }

\* the values a key is given in the literals
LiteralValues(key) ==
    CASE key = "$" -> {Str("string"), Str("array"), Str("optional"), Str("number")}
      [] key = "?" -> {Str("string"), Str("bogus")}
      [] key = "label" -> {Str("string"), Null}
      [] key = "name" -> {Str("string"), Str("bogus"), OptionalLiteral, Arr(<<Str("number")>>)}
      [] key = "items" -> {Str("string"), Arr(<<Str("string"), Str("number")>>)}
      [] key = "type" -> {Str("number")}
      [] key = "requireFilled" -> {Bool(FALSE)}
      [] key = "require_filled" -> {Bool(FALSE)}
      [] key = "minLength" -> {Ten}
      [] key = "string" -> {Null}

RECURSIVE MapsOver(_)
\* every map giving each key of K one of its values
MapsOver(K) ==
    IF K = {} THEN {EmptyMap}
    ELSE LET key == CHOOSE k \in K : TRUE IN
         { [k \in K |-> IF k = key THEN v ELSE rest[k]] :
             v \in LiteralValues(key), rest \in MapsOver(K \ {key}) }

ObjectLiterals ==
    UNION { { Obj(map) : map \in MapsOver(K) } :
            K \in { S \in SUBSET LiteralKeys : Cardinality(S) <= MaxLiteralKeys } }

ArrayLiterals ==
    { Arr(items) :
        items \in SeqsUpTo({Str("string"), Str("number"), Str("optional"), Str("bogus"),
                            Null, Arr(<<Str("string")>>)}, MaxLiteralItems) }

\* the literals handed to the deserializer
SchemaLiterals ==
    { Str(BasicTypeName[t]) : t \in BasicTypes }
        \cup {Str("bogus"), Str("String"), Null, Bool(FALSE), Ten}
        \cup ObjectLiterals \cup ArrayLiterals

\* the candidates a deserialized schema is validated on
DeserializedCandidates ==
    {Arr(<<>>), Arr(<<Str(<<>>)>>), Arr(<<Str(<<97>>), Null>>), Str(<<97>>), Null, Obj(EmptyMap)}

----------------------------------------------------------------------------
(* The calls *)

NoCall == [none |-> TRUE]

Init ==
    /\ pc = "idle"
    /\ op = "none"
    /\ self = NoCall
    /\ arg = Null
    /\ out = NoCall
    /\ prev = NoCall

\* BasicType::validate on a candidate
BasicCall ==
    /\ pc = "idle"
    /\ \E basic_type \in BasicTypes, value \in LeafValues :
        /\ op' = "Basic"
        /\ self' = basic_type
        /\ arg' = value
        /\ out' = [res |-> BasicValidate(basic_type, value), calls |-> <<>>]
    /\ pc' = "done"
    /\ UNCHANGED prev

\* AdvancedStringType::validate on a candidate
StringCall ==
    /\ pc = "idle"
    /\ \E string_type \in StringTypes, value \in StringCandidates :
        /\ op' = "String"
        /\ self' = string_type
        /\ arg' = value
        /\ out' = [res |-> StringValidate(string_type, value), calls |-> <<>>]
    /\ pc' = "done"
    /\ UNCHANGED prev

\* AnyOfType::validate on a candidate
AnyOfCall ==
    /\ pc = "idle"
    /\ \E any_of \in AnyOfTypes, value \in AnyOfCandidates :
        /\ op' = "AnyOf"
        /\ self' = any_of
        /\ arg' = value
        /\ out' = AnyOfValidate(any_of, value)
    /\ pc' = "done"
    /\ UNCHANGED prev

\* TupleType::validate on a candidate
TupleCall ==
    /\ pc = "idle"
    /\ \E tuple_type \in TupleTypes, value \in TupleCandidates :
        /\ op' = "Tuple"
        /\ self' = tuple_type
        /\ arg' = value
        /\ out' = TupleValidate(tuple_type, value)
    /\ pc' = "done"
    /\ UNCHANGED prev

\* to_string on the TupleError of the call; the boxed variant prints the
\* error it wraps, whose text is not modelled
TupleErrorToString ==
    /\ pc = "done"
    /\ op = "Tuple"
    /\ IsErr(out.res)
    /\ out.res.err.e \in {"NotAnArray", "IncorrectLength"}
    /\ prev' = [message |-> TupleErrorDisplay(out.res.err)]
    /\ pc' = "rendered"
    /\ UNCHANGED <<op, self, arg, out>>

\* ObjectType::validate on a candidate
ObjectCall ==
    /\ pc = "idle"
    /\ \E object_type \in ObjectTypes \cup NullableObjectTypes, value \in ObjectCandidates :
        /\ op' = "Object"
        /\ self' = object_type
        /\ arg' = value
        /\ out' = ObjectValidate(object_type, value)
    /\ pc' = "done"
    /\ UNCHANGED prev

\* ArrayType::validate on a candidate
ArrayCall ==
    /\ pc = "idle"
    /\ \E array_type \in ArrayTypes, value \in TupleCandidates :
        /\ op' = "Array"
        /\ self' = array_type
        /\ arg' = value
        /\ out' = ArrayValidate(array_type, value)
    /\ pc' = "done"
    /\ UNCHANGED prev

\* OptionalType::validate on a candidate
OptionalCall ==
    /\ pc = "idle"
    /\ \E optional_type \in OptionalTypes, value \in OptionalCandidates :
        /\ op' = "Optional"
        /\ self' = optional_type
        /\ arg' = value
        /\ out' = OptionalValidate(optional_type, value)
    /\ pc' = "done"
    /\ UNCHANGED prev

\* SchemaType::validate on a candidate
SchemaCall ==
    /\ pc = "idle"
    /\ \E schema \in SchemaPool, value \in SchemaCandidates :
        /\ op' = "Schema"
        /\ self' = schema
        /\ arg' = value
        /\ out' = SchemaValidate(schema, value)
    /\ pc' = "done"
    /\ UNCHANGED prev

\* SchemaType::validate once more, on the same schema and the same candidate
ValidateAgain ==
    /\ pc = "done"
    /\ op = "Schema"
    /\ prev' = out
    /\ out' = SchemaValidate(self, arg)
    /\ pc' = "again"
    /\ UNCHANGED <<op, self, arg>>

\* PartialEq for HashMap<String, SchemaType>: the same entries, whatever the table order
HashMapEq(a, b) == MapEntries(a) = MapEntries(b)

\* derived PartialEq for SchemaType, on the schemas of SchemaPool
SchemaEq(a, b) ==
    IF a.st = "Object" /\ b.st = "Object"
    THEN HashMapEq(a.object_map, b.object_map)
    ELSE IF a.st = "Advanced" /\ b.st = "Advanced"
              /\ a.adv.at = "Object" /\ b.adv.at = "Object"
         THEN HashMapEq(a.adv.object_type.object, b.adv.object_type.object)
         ELSE a = b

\* the schemas built from the entries of a schema of SchemaPool: itself, and
\* for an object schema the same entries in every table order
Rebuilds(schema) ==
    IF schema.st = "Object"
    THEN { ObjectShorthand(map) : map \in TableOrders(schema.object_map) }
    ELSE IF schema.st = "Advanced" /\ schema.adv.at = "Object"
    THEN { Advanced(AdvObject(ObjectType(map))) :
            map \in TableOrders(schema.adv.object_type.object) }
    ELSE {schema}

\* SchemaType::validate of the same candidate on a schema built a second time
\* from the same entries: it compares equal to the first, and its HashMap,
\* hashed with its own RandomState, may hold the keys in another table order
ValidateRebuilt ==
    /\ pc = "done"
    /\ op = "Schema"
    /\ \E rebuilt \in Rebuilds(self) :
        /\ SchemaEq(self, rebuilt)
        /\ self' = rebuilt
        /\ out' = SchemaValidate(rebuilt, arg)
    /\ prev' = out
    /\ pc' = "rebuilt"
    /\ UNCHANGED <<op, arg>>

\* serde_json::from_value::<SchemaType> on a literal
DeserializeCall ==
    /\ pc = "idle"
    /\ \E literal \in SchemaLiterals :
        LET r == DeserializeSchemaType(literal) IN
        /\ arg' = literal
        /\ IF r.ok /\ r.val.st = "Object"
           THEN \E map \in TableOrders(r.val.object_map) :
                    out' = Run(DeOk(ObjectShorthand(map)), <<>>)
           ELSE out' = Run(r, <<>>)
    /\ op' = "Deserialize"
    /\ self' = NoCall
    /\ pc' = "done"
    /\ UNCHANGED prev

\* SchemaType::validate on the schema a literal was deserialized to; `prev`
\* keeps the literal
ValidateDeserialized ==
    /\ pc = "done"
    /\ op = "Deserialize"
    /\ out.res.ok
    /\ \E value \in DeserializedCandidates :
        /\ arg' = value
        /\ out' = SchemaValidate(out.res.val, value)
    /\ self' = out.res.val
    /\ prev' = [literal |-> arg]
    /\ op' = "Deserialized"
    /\ pc' = "validated"

\* the caller drops the result and the receiver
Return ==
    /\ pc \in {"done", "again", "rebuilt", "validated", "rendered", "schema", "parsed"}
    /\ pc' = "idle"
    /\ op' = "none"
    /\ self' = NoCall
    /\ arg' = Null
    /\ out' = NoCall
    /\ prev' = NoCall

Next ==
    \/ BasicCall
    \/ StringCall
    \/ AnyOfCall
    \/ TupleCall
    \/ TupleErrorToString
    \/ ObjectCall
    \/ ArrayCall
    \/ OptionalCall
    \/ SchemaCall
    \/ ValidateAgain
    \/ ValidateRebuilt
    \/ DeserializeCall
    \/ ValidateDeserialized
    \/ Return

Spec == Init /\ [][Next]_vars

----------------------------------------------------------------------------
(* Schema: an initial SchemaType and the changes recorded on it. The       *)
(* version is a u32, kept as two 16-bit limbs, the high one first.         *)

U32(n) == <<n \div 65536, n % 65536>>

\* u32 += 1 where the sum fits; at u32::MAX the build decides between a
\* panic and the wrap to 0 written here, which takes 2^32 calls to reach
U32Inc(v) ==
    IF v[2] < 65535 THEN <<v[1], v[2] + 1>> ELSE <<(v[1] + 1) % 65536, 0>>

SchemaChange(new_schema) == [new_schema |-> new_schema]

Schema(version, initial, changes) ==
    [version |-> version, initial |-> initial, changes |-> changes]

\* From<SchemaType> for Schema
SchemaFrom(value) == Schema(U32(0), value, <<>>)

\* the change recorded in place of the last one, the version left alone
AddChangeInPlace(schema, change) ==
    Schema(schema.version, schema.initial,
           IF schema.changes = <<>> THEN <<change>>
           ELSE [schema.changes EXCEPT ![Len(schema.changes)] = change])

\* Schema::add_change
AddChange(schema, change) ==
    Schema(U32Inc(schema.version), schema.initial, Append(schema.changes, change))

SchemaInitials == LeafSchemas \cup {ArrayShorthand(Basic("String"))}

SchemaChanges == { SchemaChange(s) : s \in LeafSchemas }

\* Schema::from on a SchemaType
SchemaFromCall ==
    /\ pc = "idle"
    /\ \E schema_type \in SchemaInitials :
        /\ op' = "Schema"
        /\ self' = SchemaFrom(schema_type)
        /\ arg' = schema_type
    /\ pc' = "schema"
    /\ UNCHANGED <<out, prev>>

\* Schema::add_change on the schema held
AddChangeCall ==
    /\ pc = "schema"
    /\ Len(self.changes) < MaxChanges
    /\ \E change \in SchemaChanges :
        /\ self' = AddChange(self, change)
        /\ arg' = change
    /\ UNCHANGED <<pc, op, out, prev>>

SchemaNext ==
    \/ SchemaFromCall
    \/ AddChangeCall
    \/ Return

SchemaSpec == Init /\ [][SchemaNext]_vars

----------------------------------------------------------------------------
(* The migration engine: JsonPath, set_path, OperationKind and Migration.  *)
(* A path part and an object key of a document are Strings, sequences of   *)
(* code points. A call that subtracts from a usize is given                *)
(* overflow_checks, the build's setting: with it the subtraction below 0   *)
(* panics, without it the value wraps to usize::MAX.                       *)

\* '$', the root of a rendered path
Dollar == 36

\* '.', between the parts of a rendered path
Dot == 46

\* '<', the part counting from the back of an array
Lt == 60

\* '>', the part counting from the front of an array
Gt == 62

JsonPath(parts) == [parts |-> parts]

\* JsonPathError, the variants without a field
JsonPathError(variant) == [e |-> variant]

KeyNotFound(key) == [e |-> "KeyNotFound", key |-> key]

PathNotAnIndex(part) == [e |-> "NotAnIndex", part |-> part]

IndexNotFound(index) == [e |-> "IndexNotFound", index |-> index]

RECURSIVE DigitsValue(_)
\* the number a run of ASCII digits writes
DigitsValue(digits) ==
    IF digits = <<>> THEN 0
    ELSE DigitsValue(SubSeq(digits, 1, Len(digits) - 1)) * 10 + (digits[Len(digits)] - 48)

\* str::parse::<usize>: an optional '+' and at least one ASCII digit; None
\* for the Err. No part of the pools is long enough to exceed usize::MAX.
ParseUsize(s) ==
    LET digits == IF s # <<>> /\ s[1] = 43 THEN Tail(s) ELSE s IN
    IF digits = <<>> \/ (\E i \in 1..Len(digits) : digits[i] \notin 48..57)
    THEN None
    ELSE Some(DigitsValue(digits))

\* the reference a resolve returns: the value and the place in the document
Resolved(val, loc) == [ok |-> TRUE, val |-> val, loc |-> loc]

IsResolved(r) == "val" \in DOMAIN r

IsPanic(r) == "panic" \in DOMAIN r

\* the Value::Array arm of resolve: the element of list the part names, as
\* its position from 1, or the error
ArrayPart(part, list, overflow_checks) ==
    IF part # <<>> /\ part[1] = Lt
    THEN LET parsed == ParseUsize(SelectSeq(part, LAMBDA c : c # Lt))
             n_back == IF parsed = None THEN 1 ELSE parsed[1]
         IN
         IF n_back = 0
         THEN IF overflow_checks
              THEN Panicked("attempt to subtract with overflow")
              ELSE Err(JsonPathError("NoLastItem"))
         ELSE IF n_back <= Len(list) THEN [at |-> Len(list) - n_back + 1]
         ELSE Err(JsonPathError("NoLastItem"))
    ELSE IF part # <<>> /\ part[1] = Gt
    THEN LET parsed == ParseUsize(SelectSeq(part, LAMBDA c : c # Gt))
             n_front == IF parsed = None THEN 1 ELSE parsed[1]
         IN
         IF n_front = 0
         THEN IF overflow_checks
              THEN Panicked("attempt to subtract with overflow")
              ELSE Err(JsonPathError("NoFirstItem"))
         ELSE IF n_front <= Len(list) THEN [at |-> n_front]
         ELSE Err(JsonPathError("NoFirstItem"))
    ELSE LET index == ParseUsize(part) IN
         IF index = None THEN Err(PathNotAnIndex(part))
         ELSE IF index[1] < Len(list) THEN [at |-> index[1] + 1]
         ELSE Err(IndexNotFound(index[1]))

RECURSIVE ResolveLoop(_, _, _, _, _)
\* the loop of resolve from the i-th part on, at current, reached by loc
ResolveLoop(parts, i, current, loc, overflow_checks) ==
    IF i > Len(parts) THEN Resolved(current, loc)
    ELSE IF current.kind = "null" THEN Err(JsonPathError("CannotMatchOnANullValue"))
    ELSE IF current.kind = "bool" THEN Err(JsonPathError("CannotMatchOnABoolean"))
    ELSE IF current.kind = "number" THEN Err(JsonPathError("CannotMatchOnANumber"))
    ELSE IF current.kind = "string" THEN Err(JsonPathError("CannotMatchOnAString"))
    ELSE IF current.kind = "array"
    THEN LET found == ArrayPart(parts[i], current.items, overflow_checks) IN
         IF "at" \in DOMAIN found
         THEN ResolveLoop(parts, i + 1, current.items[found.at],
                          Append(loc, [index |-> found.at]), overflow_checks)
         ELSE found
    ELSE IF parts[i] \in DOMAIN current.map
         THEN ResolveLoop(parts, i + 1, current.map[parts[i]],
                          Append(loc, [key |-> parts[i]]), overflow_checks)
         ELSE Err(KeyNotFound(parts[i]))

\* JsonPath::resolve
Resolve(path, value, overflow_checks) ==
    ResolveLoop(path.parts, 1, value, <<>>, overflow_checks)

\* JsonPath::resolve_mut: the loop of resolve over mutable references
ResolveMut(path, value, overflow_checks) ==
    ResolveLoop(path.parts, 1, value, <<>>, overflow_checks)

RECURSIVE WriteAt(_, _, _)
\* the document after new is written through the reference to loc
WriteAt(value, loc, new) ==
    IF loc = <<>> THEN new
    ELSE IF "index" \in DOMAIN Head(loc)
    THEN Arr([value.items EXCEPT ![Head(loc).index] = WriteAt(@, Tail(loc), new)])
    ELSE Obj([value.map EXCEPT ![Head(loc).key] = WriteAt(@, Tail(loc), new)])

\* JsonPath::clone_last
CloneLast(path) ==
    IF path.parts = <<>> THEN None ELSE Some(path.parts[Len(path.parts)])

\* JsonPath::parent
Parent(path) ==
    IF path.parts = <<>> THEN None
    ELSE Some(JsonPath(SubSeq(path.parts, 1, Len(path.parts) - 1)))

\* Map::insert
MapInsert(map, key, value) ==
    [k \in DOMAIN map \cup {key} |-> IF k = key THEN value ELSE map[k]]

\* Map::remove
MapRemove(map, key) == [k \in DOMAIN map \ {key} |-> map[k]]

\* Vec::remove of the element at position index + 1
VecRemove(array, index) ==
    [i \in 1..(Len(array) - 1) |-> IF i <= index THEN array[i] ELSE array[i + 1]]

\* SetPathError, the variants without a field
SetPathError(variant) == [e |-> variant]

SetNotAnIndex(last) == [e |-> "NotAnIndex", last |-> last]

\* From<JsonPathError> for SetPathError
SetPathPathError(e) == [e |-> "PathError", path_error |-> e]

\* what a call on a &mut Value leaves: its result and the document after it
Effect(res, doc) == [res |-> res, doc |-> doc]

\* a missing index pushed onto the array before the call is refused
SetOnArrayPushMissing(array, last, value) ==
    IF last # <<>> /\ last[1] = Lt THEN [res |-> Ok, array |-> Append(array, value)]
    ELSE IF last # <<>> /\ last[1] = Gt THEN [res |-> Ok, array |-> <<value>> \o array]
    ELSE LET index == ParseUsize(last) IN
         IF index = None THEN [res |-> Err(SetNotAnIndex(last)), array |-> array]
         ELSE IF index[1] >= Len(array)
         THEN [res |-> Err(SetPathError("CannotReplaceMissingIndex")),
               array |-> Append(array, value)]
         ELSE [res |-> Ok, array |-> [array EXCEPT ![index[1] + 1] = value]]

\* the Value::Array arm of set_path: its result and the array after it
SetOnArray(array, last, value) ==
    IF last # <<>> /\ last[1] = Lt THEN [res |-> Ok, array |-> Append(array, value)]
    ELSE IF last # <<>> /\ last[1] = Gt THEN [res |-> Ok, array |-> <<value>> \o array]
    ELSE LET index == ParseUsize(last) IN
         IF index = None THEN [res |-> Err(SetNotAnIndex(last)), array |-> array]
         ELSE IF index[1] >= Len(array)
         THEN [res |-> Err(SetPathError("CannotReplaceMissingIndex")), array |-> array]
         ELSE [res |-> Ok, array |-> [array EXCEPT ![index[1] + 1] = value]]

\* the match of set_path on what the parent of the path resolved to
SetOnParent(target, resolved, last, value) ==
    IF IsPanic(resolved) THEN Effect(resolved, target)
    ELSE IF ~IsResolved(resolved) THEN Effect(Err(SetPathPathError(resolved.err)), target)
    ELSE IF resolved.val.kind = "null"
    THEN Effect(Err(SetPathError("CannotSetOnANullValue")), target)
    ELSE IF resolved.val.kind = "bool"
    THEN Effect(Err(SetPathError("CannotSetOnABoolean")), target)
    ELSE IF resolved.val.kind = "number"
    THEN Effect(Err(SetPathError("CannotSetOnANumber")), target)
    ELSE IF resolved.val.kind = "string"
    THEN Effect(Err(SetPathError("CannotSetOnAString")), target)
    ELSE IF resolved.val.kind = "array"
    THEN Effect(SetOnArray(resolved.val.items, last, value).res,
                WriteAt(target, resolved.loc,
                        Arr(SetOnArray(resolved.val.items, last, value).array)))
    ELSE Effect(Ok, WriteAt(target, resolved.loc,
                            Obj(MapInsert(resolved.val.map, last, value))))

\* Value::set_path
SetPath(target, path, value, overflow_checks) ==
    IF Parent(path) = None THEN Effect(Ok, value)
    ELSE SetOnParent(target, ResolveMut(Parent(path)[1], target, overflow_checks),
                     CloneLast(path)[1], value)

\* Ok(value) of a call that returns a value
OkOf(val) == [ok |-> TRUE, val |-> val]

\* ValueSource
SourcePath(path) == [source |-> "Path", path |-> path]

SourceArray(sources) == [source |-> "Array", sources |-> sources]

\* the entries of the HashMap in table order, each a key and its source
SourceObject(entries) == [source |-> "Object", entries |-> entries]

\* From<JsonPathError> for ValueSourceError
ValueSourceError(e) == [e |-> "PathError", path_error |-> e]

RECURSIVE SourceResolve(_, _, _)
RECURSIVE SourceResolveAll(_, _, _, _)
\* the sources resolved one after the other up to the first that fails:
\* the values in order, or the failure
SourceResolveAll(sources, i, target, overflow_checks) ==
    IF i > Len(sources) THEN OkOf(<<>>)
    ELSE LET first == SourceResolve(sources[i], target, overflow_checks) IN
         IF ~IsResolved(first) THEN first
         ELSE LET rest == SourceResolveAll(sources, i + 1, target, overflow_checks) IN
              IF ~IsResolved(rest) THEN rest ELSE OkOf(<<first.val>> \o rest.val)

\* ValueSource::resolve
SourceResolve(source, target, overflow_checks) ==
    IF source.source = "Path"
    THEN LET value == Resolve(source.path, target, overflow_checks) IN
         IF IsPanic(value) THEN value
         ELSE IF ~IsResolved(value) THEN Err(ValueSourceError(value.err))
         ELSE OkOf(value.val)
    ELSE IF source.source = "Array"
    THEN LET values == SourceResolveAll(source.sources, 1, target, overflow_checks) IN
         IF ~IsResolved(values) THEN values ELSE OkOf(Arr(values.val))
    ELSE LET sources == [i \in 1..Len(source.entries) |-> source.entries[i].source]
             values == SourceResolveAll(sources, 1, target, overflow_checks)
         IN
         IF ~IsResolved(values) THEN values
         ELSE OkOf(Obj([k \in { source.entries[i].key : i \in 1..Len(source.entries) } |->
                         values.val[CHOOSE i \in 1..Len(source.entries) :
                                        source.entries[i].key = k]]))

\* OperationKind
Delete == [op |-> "delete"]

Copy(new_path) == [op |-> "copy", new_path |-> new_path]

Rename(new_path) == [op |-> "rename", new_path |-> new_path]

Set(value, source) == [op |-> "set", value |-> value, source |-> source]

\* OperationError
OperationPathError(e) == [e |-> "PathError", path_error |-> e]

OperationSetError(e) == [e |-> "SetError", set_error |-> e]

OperationSourceError(e) == [e |-> "SourceError", source_error |-> e]

OperationNotAnIndex(last) == [e |-> "NotAnIndex", last |-> last]

CannotDeleteOn(value) == [e |-> "CannotDeleteOn", value |-> value]

\* the `?` on a Result<_, SetPathError> in apply
SetFailure(set) ==
    IF IsErr(set.res) THEN Effect(Err(OperationSetError(set.res.err)), set.doc) ELSE set

\* the match of Delete on what the parent of the path resolved to
DeleteOnParent(working_value, target_value, last) ==
    IF IsPanic(target_value) THEN Effect(target_value, working_value)
    ELSE IF ~IsResolved(target_value)
    THEN Effect(Err(OperationPathError(target_value.err)), working_value)
    ELSE IF target_value.val.kind = "array"
    THEN IF ParseUsize(last) = None
         THEN Effect(Err(OperationNotAnIndex(last)), working_value)
         ELSE IF ParseUsize(last)[1] >= Len(target_value.val.items)
         THEN Effect(Panicked("removal index should be < len"), working_value)
         ELSE Effect(Ok, WriteAt(working_value, target_value.loc,
                                 Arr(VecRemove(target_value.val.items, ParseUsize(last)[1]))))
    ELSE IF target_value.val.kind = "object"
    THEN Effect(Ok, WriteAt(working_value, target_value.loc,
                            Obj(MapRemove(target_value.val.map, last))))
    ELSE Effect(Err(CannotDeleteOn(target_value.val)), working_value)

\* OperationKind::Delete.apply
ApplyDelete(path, working_value, overflow_checks) ==
    IF Parent(path) = None THEN Effect(Ok, Null)
    ELSE DeleteOnParent(working_value,
                        ResolveMut(Parent(path)[1], working_value, overflow_checks),
                        CloneLast(path)[1])

\* Copy once the path is resolved: the clone of the value set at copy_to
CopyResolved(copy_to, value, working_value, overflow_checks) ==
    IF IsPanic(value) THEN Effect(value, working_value)
    ELSE IF ~IsResolved(value) THEN Effect(Err(OperationPathError(value.err)), working_value)
    ELSE SetFailure(SetPath(working_value, copy_to, value.val, overflow_checks))

\* OperationKind::Copy.apply
ApplyCopy(copy_to, path, working_value, overflow_checks) ==
    CopyResolved(copy_to, Resolve(path, working_value, overflow_checks),
                 working_value, overflow_checks)

\* the second half of Rename: the delete on what the copy left, unless the
\* copy failed
DeleteCopied(path, copied, overflow_checks) ==
    IF ~IsOk(copied.res) THEN copied
    ELSE ApplyDelete(path, copied.doc, overflow_checks)

\* OperationKind::Rename.apply
ApplyRename(new_path, path, working_value, overflow_checks) ==
    DeleteCopied(path, ApplyCopy(new_path, path, working_value, overflow_checks),
                 overflow_checks)

\* the second half of Set once the source is resolved
SetFound(path, found, working_value, overflow_checks) ==
    IF IsPanic(found) THEN Effect(found, working_value)
    ELSE IF ~IsResolved(found)
    THEN Effect(Err(OperationSourceError(found.err)), working_value)
    ELSE SetFailure(SetPath(working_value, path, found.val, overflow_checks))

\* the second half of Set: the source, on what the first half left
SetSource(source, path, first, overflow_checks) ==
    IF ~IsOk(first.res) \/ source = None THEN first
    ELSE SetFound(path, SourceResolve(source[1], first.doc, overflow_checks),
                  first.doc, overflow_checks)

\* OperationKind::Set.apply: the value first when there is one, then the source
ApplySet(value, source, path, working_value, overflow_checks) ==
    SetSource(source, path,
              IF value = None THEN Effect(Ok, working_value)
              ELSE SetFailure(SetPath(working_value, path, value[1], overflow_checks)),
              overflow_checks)

\* OperationKind::apply
Apply(kind, path, working_value, overflow_checks) ==
    IF kind.op = "delete" THEN ApplyDelete(path, working_value, overflow_checks)
    ELSE IF kind.op = "copy"
    THEN ApplyCopy(kind.new_path, path, working_value, overflow_checks)
    ELSE IF kind.op = "rename"
    THEN ApplyRename(kind.new_path, path, working_value, overflow_checks)
    ELSE ApplySet(kind.value, kind.source, path, working_value, overflow_checks)

\* Operation::new
Operation(target_path, kind) == [target |-> target_path, op |-> kind]

\* From<OperationError> for MigrationError
MigrationError(e) == [e |-> "OperationError", operation_error |-> e]

\* one pass of the loop of migrate, as the trace records it
Applied(operation, working_copy) ==
    [operation |-> operation, working_copy |-> working_copy]

RECURSIVE MigrateLoop(_, _, _, _)
\* the rest of the loop run on the document migrate was given
MigrateStepOnInput(operations, i, working_copy, applied, overflow_checks) ==
    IF IsPanic(applied.res)
    THEN Run(applied.res, <<Applied(operations[i], working_copy)>>)
    ELSE IF IsErr(applied.res)
    THEN Run(Err(MigrationError(applied.res.err)), <<Applied(operations[i], working_copy)>>)
    ELSE Run(IF i = Len(operations) THEN OkOf(applied.doc)
             ELSE MigrateLoop(operations, i + 1, working_copy, overflow_checks).res,
             <<Applied(operations[i], working_copy)>>
                \o MigrateLoop(operations, i + 1, working_copy, overflow_checks).calls)

\* one pass of the loop of migrate, the i-th operation applied: the `?` on
\* its result, and the rest of the loop on the document it left
MigrateStep(operations, i, working_copy, applied, overflow_checks) ==
    IF IsPanic(applied.res)
    THEN Run(applied.res, <<Applied(operations[i], working_copy)>>)
    ELSE IF IsErr(applied.res)
    THEN Run(Err(MigrationError(applied.res.err)), <<Applied(operations[i], working_copy)>>)
    ELSE Run(MigrateLoop(operations, i + 1, applied.doc, overflow_checks).res,
             <<Applied(operations[i], working_copy)>>
                \o MigrateLoop(operations, i + 1, applied.doc, overflow_checks).calls)

\* the loop of migrate from the i-th operation on: the result and the trace
\* of the operations applied, each with the document it was applied to
MigrateLoop(operations, i, working_copy, overflow_checks) ==
    IF i > Len(operations) THEN Run(OkOf(working_copy), <<>>)
    ELSE MigrateStep(operations, i, working_copy,
                     Apply(operations[i].op, operations[i].target,
                           working_copy, overflow_checks),
                     overflow_checks)

\* Migration::migrate
Migrate(operations, value, overflow_checks) ==
    MigrateLoop(operations, 1, value, overflow_checks)

RECURSIVE DisplayParts(_)
\* the loop of Display for JsonPath: '.' and the part, for each part
DisplayParts(parts) ==
    IF parts = <<>> THEN <<>> ELSE <<Dot>> \o Head(parts) \o DisplayParts(Tail(parts))

\* Display for JsonPath
PathToString(path) == <<Dollar>> \o DisplayParts(path.parts)

RECURSIVE Split(_, _)
\* str::split on a character: the segments between its occurrences
Split(s, sep) ==
    IF \A i \in 1..Len(s) : s[i] # sep THEN <<s>>
    ELSE LET i == CHOOSE i \in 1..Len(s) : s[i] = sep /\ \A j \in 1..(i - 1) : s[j] # sep IN
         <<SubSeq(s, 1, i - 1)>> \o Split(SubSeq(s, i + 1, Len(s)), sep)

\* FromStr for JsonPath
PathFromStr(s) ==
    LET parts == Split(s, Dot) IN
    IF Head(parts) # <<Dollar>> THEN Err(JsonPathError("FailedToParse"))
    ELSE OkOf(JsonPath(Tail(parts)))

----------------------------------------------------------------------------
(* The inputs of the migration calls: 'a' is 97, 'b' 98, '0' 48, '2' 50 *)

Paths(parts) == { JsonPath(p) : p \in SeqsUpTo(parts, MaxParts) }

ResolveParts ==
    { <<97>>, <<98>>, <<48>>, <<49>>, <<Lt>>, <<Gt>>,
      <<Lt, 48>>, <<Gt, 48>>, <<Lt, 50>>, <<Gt, 50>> }

MutParts == { <<97>>, <<98>>, <<48>>, <<Lt>>, <<Gt>>, <<Lt, 48>> }

ApplyParts == { <<97>>, <<98>>, <<48>>, <<Lt>> }

NewPathParts == { <<97>>, <<98>>, <<Lt>> }

DisplayPartPool == { <<>>, <<97>>, <<97, Dot, 98>>, <<Dollar>>, <<48>>, <<Lt>> }

PathStrings == SeqsUpTo({Dollar, Dot, 97}, MaxPathStrLen)

DocLeaves == {Ten, Str(<<97>>)}

DocScalars == {Null, Bool(TRUE)} \cup DocLeaves

FlatDocs ==
    { Arr(items) : items \in SeqsUpTo(DocLeaves, MaxDocLen) }
        \cup UNION { { Obj(map) : map \in [K -> DocLeaves] } : K \in SUBSET {<<97>>, <<98>>} }

NestedDocs ==
    { Obj([k \in {<<97>>} |-> inner]) : inner \in FlatDocs }
        \cup { Arr(<<inner>>) : inner \in FlatDocs }

Docs == DocScalars \cup FlatDocs \cup NestedDocs

ApplyDocs ==
    FlatDocs \cup {Null}
        \cup { Obj([k \in {<<97>>} |-> inner]) :
                 inner \in { Arr(<<>>), Arr(<<Ten, Str(<<97>>)>>),
                             Obj([j \in {<<97>>} |-> Ten]), Obj([j \in {<<98>>} |-> Ten]) } }

Sources ==
    { SourcePath(JsonPath(<<>>)), SourcePath(JsonPath(<<<<97>>>>)),
      SourcePath(JsonPath(<<<<48>>>>)),
      SourceArray(<<SourcePath(JsonPath(<<<<97>>>>)), SourcePath(JsonPath(<<<<98>>>>))>>),
      SourceObject(<<[key |-> <<97>>, source |-> SourcePath(JsonPath(<<<<97>>>>))],
                     [key |-> <<98>>, source |-> SourcePath(JsonPath(<<<<98>>>>))]>>),
      SourceObject(<<[key |-> <<98>>, source |-> SourcePath(JsonPath(<<<<98>>>>))],
                     [key |-> <<97>>, source |-> SourcePath(JsonPath(<<<<97>>>>))]>>) }

OperationKinds ==
    {Delete}
        \cup { Copy(q) : q \in Paths(NewPathParts) }
        \cup { Rename(q) : q \in Paths(NewPathParts) }
        \cup { Set(value, source) :
                 value \in {None, Some(Ten)},
                 source \in {None} \cup { Some(s) : s \in Sources } }

MigrateOperations ==
    { Operation(JsonPath(<<<<97>>>>), Rename(JsonPath(<<<<98>>>>))),
      Operation(JsonPath(<<<<98>>>>), Copy(JsonPath(<<<<97>>>>))),
      Operation(JsonPath(<<<<97>>>>), Delete),
      Operation(JsonPath(<<<<48>>>>), Delete),
      Operation(JsonPath(<<<<97>>>>), Set(Some(Ten), None)),
      Operation(JsonPath(<<<<98>>>>), Set(None, Some(SourcePath(JsonPath(<<<<97>>>>))))),
      Operation(JsonPath(<<<<Lt>>>>), Set(Some(Null), None)),
      Operation(JsonPath(<<>>), Set(Some(Arr(<<>>)), None)) }

MigrateDocs ==
    { Null, Arr(<<>>), Arr(<<Ten>>), Obj(EmptyMap),
      Obj([k \in {<<97>>} |-> Str(<<97>>)]),
      Obj([k \in {<<97>>, <<98>>} |-> IF k = <<97>> THEN Ten ELSE Null]) }

----------------------------------------------------------------------------
(* The migration calls *)

\* JsonPath::resolve on a document
ResolveCall ==
    /\ pc = "idle"
    /\ \E path \in Paths(ResolveParts), value \in Docs, overflow_checks \in BOOLEAN :
        /\ op' = "Resolve"
        /\ self' = path
        /\ arg' = value
        /\ out' = [res |-> Resolve(path, value, overflow_checks)]
    /\ pc' = "done"
    /\ UNCHANGED prev

\* JsonPath::resolve_mut on a document
ResolveMutCall ==
    /\ pc = "idle"
    /\ \E path \in Paths(MutParts), value \in Docs, overflow_checks \in BOOLEAN :
        /\ op' = "ResolveMut"
        /\ self' = path
        /\ arg' = value
        /\ out' = [res |-> ResolveMut(path, value, overflow_checks)]
    /\ pc' = "done"
    /\ UNCHANGED prev

\* Value::set_path on a document
SetPathCall ==
    /\ pc = "idle"
    /\ \E target \in Docs, path \in Paths(MutParts), value \in {Ten, Null},
          overflow_checks \in BOOLEAN :
        /\ op' = "SetPath"
        /\ self' = target
        /\ arg' = [path |-> path, value |-> value]
        /\ out' = SetPath(target, path, value, overflow_checks)
    /\ pc' = "done"
    /\ UNCHANGED prev

\* OperationKind::apply of an operation on a working value
ApplyCall ==
    /\ pc = "idle"
    /\ \E kind \in OperationKinds, path \in Paths(ApplyParts), working_value \in ApplyDocs,
          overflow_checks \in BOOLEAN :
        /\ op' = "Apply"
        /\ self' = Operation(path, kind)
        /\ arg' = working_value
        /\ out' = Apply(kind, path, working_value, overflow_checks)
    /\ pc' = "done"
    /\ UNCHANGED prev

\* Migration::migrate of a list of operations on a document
MigrateCall ==
    /\ pc = "idle"
    /\ \E operations \in SeqsUpTo(MigrateOperations, MaxOperations), value \in MigrateDocs,
          overflow_checks \in BOOLEAN :
        /\ op' = "Migrate"
        /\ self' = [operations |-> operations]
        /\ arg' = value
        /\ out' = Migrate(operations, value, overflow_checks)
    /\ pc' = "done"
    /\ UNCHANGED prev

\* JsonPath::to_string
ToStringCall ==
    /\ pc = "idle"
    /\ \E path \in Paths(DisplayPartPool) :
        /\ op' = "ToString"
        /\ self' = path
        /\ out' = [res |-> PathToString(path)]
    /\ pc' = "done"
    /\ UNCHANGED <<arg, prev>>

\* JsonPath::from_str on the string to_string gave
ParseRendered ==
    /\ pc = "done"
    /\ op = "ToString"
    /\ prev' = [parsed |-> PathFromStr(out.res)]
    /\ pc' = "parsed"
    /\ UNCHANGED <<op, self, arg, out>>

\* JsonPath::from_str on a string
FromStrCall ==
    /\ pc = "idle"
    /\ \E s \in PathStrings :
        /\ op' = "FromStr"
        /\ self' = NoCall
        /\ arg' = Str(s)
        /\ out' = [res |-> PathFromStr(s)]
    /\ pc' = "done"
    /\ UNCHANGED prev

MigrationNext ==
    \/ ResolveCall
    \/ ResolveMutCall
    \/ SetPathCall
    \/ ApplyCall
    \/ MigrateCall
    \/ ToStringCall
    \/ ParseRendered
    \/ FromStrCall
    \/ Return

MigrationSpec == Init /\ [][MigrationNext]_vars

----------------------------------------------------------------------------
(* What a number is worth, read off its representation: the vocabulary of  *)
(* the properties below.                                                   *)

NumIsZero(number) ==
    number.mag = LimbZero /\ (number.n = "Float" => number.frac = 0)

NumIsNegative(number) ==
    \/ number.n = "NegInt"
    \/ number.n = "Float" /\ number.neg /\ ~NumIsZero(number)

NumIsPositive(number) == ~NumIsNegative(number) /\ ~NumIsZero(number)

\* no fractional part, whatever the representation: 1 and 1.0 are both integral
NumIsIntegral(number) == number.n = "Float" => number.frac = 0

UnsignedTypes == {"U8", "U16", "U32", "U64"}

SignedTypes == {"I8", "I16", "I32", "I64"}

UnsignedMax(basic_type) ==
    CASE basic_type = "U8" -> U8_MAX
      [] basic_type = "U16" -> U16_MAX
      [] basic_type = "U32" -> U32_MAX
      [] basic_type = "U64" -> U64_MAX

\* 127, 32767, 2147483647, 2^63 - 1
SignedMax(basic_type) ==
    CASE basic_type = "I8" -> Limbs(0, 0, 0, 127)
      [] basic_type = "I16" -> Limbs(0, 0, 0, 32767)
      [] basic_type = "I32" -> Limbs(0, 0, 32767, 65535)
      [] basic_type = "I64" -> I64_MAX

\* the magnitudes of -128, -32768, -2147483648, -2^63
SignedMinMagnitude(basic_type) ==
    CASE basic_type = "I8" -> Limbs(0, 0, 0, 128)
      [] basic_type = "I16" -> Limbs(0, 0, 0, 32768)
      [] basic_type = "I32" -> Limbs(0, 0, 32768, 0)
      [] basic_type = "I64" -> Limbs(32768, 0, 0, 0)

InSignedRange(basic_type, number) ==
    /\ NumIsIntegral(number)
    /\ IF NumIsNegative(number)
       THEN LimbLe(number.mag, SignedMinMagnitude(basic_type))
       ELSE LimbLe(number.mag, SignedMax(basic_type))

InUnsignedRange(basic_type, number) ==
    /\ NumIsIntegral(number)
    /\ ~NumIsNegative(number)
    /\ LimbLe(number.mag, UnsignedMax(basic_type))

NotAError(basic_type) == "NotA" \o basic_type

\* the JSON kind each kind matcher names
KindTypes == {"Null", "Boolean", "Number", "String", "Array", "Object"}

KindOf(basic_type) ==
    CASE basic_type = "Null" -> "null"
      [] basic_type = "Boolean" -> "bool"
      [] basic_type = "Number" -> "number"
      [] basic_type = "String" -> "string"
      [] basic_type = "Array" -> "array"
      [] basic_type = "Object" -> "object"

----------------------------------------------------------------------------
(* C3: I8, I16, I32 and I64 accept a JSON number exactly when it is        *)
(* integral and within the type's two's-complement range, reject every     *)
(* other number with the matching NotAI8 / NotAI16 / NotAI32 / NotAI64,    *)
(* and reject a non-number with IncorrectType.                             *)
C3_SignedMatchers ==
    (op = "Basic" /\ self \in SignedTypes) =>
        IF arg.kind = "number"
        THEN out.res = IF InSignedRange(self, arg.number)
                       THEN Ok
                       ELSE Err(NumberError(NotAError(self), arg.number))
        ELSE out.res = Err(IncorrectType(self, arg))

C5_KindMatchers ==
    op = "Basic" =>
        /\ self = "Any" => out.res = Ok
        /\ self \in KindTypes =>
            out.res = IF arg.kind = KindOf(self)
                      THEN Ok
                      ELSE Err(IncorrectType(self, arg))

\* Null was called on a string and reported the mismatch with the string in it
C5_Witness ==
    /\ op = "Basic"
    /\ self = "Null"
    /\ arg.kind = "string"
    /\ out.res = Err(IncorrectType("Null", arg))
    /\ out.res.err.got = arg

(* C6: PositiveNumber rejects a number with NotAPositiveNumber exactly     *)
(* when it is below zero, NegativeNumber with NotANegativeNumber exactly   *)
(* when it is above zero; zero passes both and a non-number gets           *)
(* IncorrectType from both.                                                *)
C6_SignMatchers ==
    (op = "Basic" /\ self \in {"PositiveNumber", "NegativeNumber"}) =>
        IF arg.kind # "number"
        THEN out.res = Err(IncorrectType(self, arg))
        ELSE /\ self = "PositiveNumber" =>
                out.res = IF NumIsNegative(arg.number)
                          THEN Err(NumberError("NotAPositiveNumber", arg.number))
                          ELSE Ok
             /\ self = "NegativeNumber" =>
                out.res = IF NumIsPositive(arg.number)
                          THEN Err(NumberError("NotANegativeNumber", arg.number))
                          ELSE Ok

\* PositiveNumber was called on zero and accepted it
C6_Witness ==
    /\ op = "Basic"
    /\ self = "PositiveNumber"
    /\ arg = Num(PosInt(LimbZero))
    /\ out.res = Ok

----------------------------------------------------------------------------
(* The object schema a call was made on: ObjectType::validate directly, or *)
(* SchemaType::validate on the Object shorthand.                           *)

IsObjectCall ==
    \/ op = "Object"
    \/ op = "Schema" /\ self.st = "Object"

DeclaredMap == IF op = "Object" THEN self.object ELSE self.object_map

IsOptionalSchema(schema) == schema.st = "Advanced" /\ schema.adv.at = "Optional"

\* the declared keys the candidate object lacks
MissingKeys(map, value) == MapKeys(map) \ DOMAIN value.map

(* C1: when ObjectType::validate (or the Object shorthand) returns Ok for  *)
(* an object candidate, every declared key whose schema is not Optional is *)
(* present and every declared key that is present holds a value that       *)
(* validates against its schema, whatever the order the map is visited in. *)
C1_OkMeansKeysPresentAndValid ==
    (IsObjectCall /\ arg.kind = "object" /\ IsOk(out.res)) =>
        \A e \in MapEntries(DeclaredMap) :
            /\ ~IsOptionalSchema(e.schema) => e.key \in DOMAIN arg.map
            /\ e.key \in DOMAIN arg.map => IsOk(SchemaValidate(e.schema, arg.map[e.key]).res)

ValidVariants(any_of, value) ==
    { i \in 1..Len(any_of.variants) : IsOk(SchemaValidate(any_of.variants[i], value).res) }

\* the first one of them, or the number of variants when there is none
LastTried(any_of, value) ==
    IF ValidVariants(any_of, value) = {}
    THEN Len(any_of.variants)
    ELSE CHOOSE i \in ValidVariants(any_of, value) :
            \A j \in ValidVariants(any_of, value) : i <= j

RECURSIVE CallsUpTo(_, _, _)
\* the calls of validating variants 1..n in turn
CallsUpTo(any_of, value, n) ==
    IF n = 0 THEN <<>>
    ELSE CallsUpTo(any_of, value, n - 1) \o SchemaValidate(any_of.variants[n], value).calls

(* C8: AnyOfType::validate returns Ok exactly when some variant validates  *)
(* the candidate; it tries the variants in listed order and stops at the   *)
(* first that validates, also when the variants are AnyOf types.           *)
C8_AnyOfFirstSuccess ==
    op = "AnyOf" =>
        /\ IsOk(out.res) <=> ValidVariants(self, arg) # {}
        /\ out.calls = CallsUpTo(self, arg, LastTried(self, arg))

\* the first variant, an AnyOf type, validated the candidate through its own
\* variant, and the second, which would have validated it too, was not tried
C8_Witness ==
    /\ op = "AnyOf"
    /\ Len(self.variants) = 2
    /\ self.variants[1].st = "Advanced"
    /\ ValidVariants(self, arg) = {1, 2}
    /\ IsOk(out.res)
    /\ out.calls = SchemaValidate(self.variants[1], arg).calls
    /\ Len(out.calls) = 2

(* C9: when no variant validates the candidate, the AnyOfTypeError carries *)
(* the whole configured variants list in configured order, and nothing of  *)
(* the variants' own errors.                                               *)
C9_AnyOfErrorNamesAllVariants ==
    (op = "AnyOf" /\ ~IsOk(out.res)) =>
        /\ out.res = Err(AnyOfTypeError(self.variants))
        /\ DOMAIN out.res.err = {"any_of_variants"}

\* two different variants both rejected the candidate
C9_Witness ==
    /\ op = "AnyOf"
    /\ Len(self.variants) = 2
    /\ self.variants[1] # self.variants[2]
    /\ Len(out.calls) >= 2
    /\ out.res = Err(AnyOfTypeError(self.variants))

(* C10: TupleType::validate on an array whose length differs from the      *)
(* number of items returns IncorrectLength(candidate's length, schema's    *)
(* length) before any element is validated; on a non-array, NotAnArray.    *)
C10_TupleLengthFirst ==
    op = "Tuple" =>
        /\ arg.kind # "array" => out = Run(Err(TupleNotAnArray), <<>>)
        /\ (arg.kind = "array" /\ Len(arg.items) # Len(self.items)) =>
            /\ out.res = Err(IncorrectLength(Len(arg.items), Len(self.items)))
            /\ out.calls = <<>>

\* a one-element array was validated against two items, its element being no match for the first
C10_Witness ==
    /\ op = "Tuple"
    /\ arg.kind = "array"
    /\ Len(arg.items) = 1
    /\ Len(self.items) = 2
    /\ ~IsOk(SchemaValidate(self.items[1], arg.items[1]).res)
    /\ out.res.err.f0 = 1
    /\ out.res.err.f1 = 2

\* the positions of an array whose element does not validate against schemas[i]
FailingPositions(schemas, items) ==
    { i \in 1..Len(items) : ~IsOk(SchemaValidate(schemas[i], items[i]).res) }

\* the lowest of them, or the number of positions when there is none
LastValidated(schemas, items) ==
    IF FailingPositions(schemas, items) = {}
    THEN Len(items)
    ELSE CHOOSE i \in FailingPositions(schemas, items) :
            \A j \in FailingPositions(schemas, items) : i <= j

RECURSIVE PositionCalls(_, _, _)
\* the calls of validating positions 1..n in turn
PositionCalls(schemas, items, n) ==
    IF n = 0 THEN <<>>
    ELSE PositionCalls(schemas, items, n - 1) \o SchemaValidate(schemas[n], items[n]).calls

(* C11: on an array as long as the items, TupleType::validate returns Ok   *)
(* exactly when every position validates against its item; otherwise the  *)
(* error of the lowest failing position, boxed as                          *)
(* TupleError::SchemaTypeValidationError, and no later position is         *)
(* validated.                                                              *)
C11_TuplePositionsInOrder ==
    (op = "Tuple" /\ arg.kind = "array" /\ Len(arg.items) = Len(self.items)) =>
        LET failing == FailingPositions(self.items, arg.items)
            last == LastValidated(self.items, arg.items)
        IN
        /\ IsOk(out.res) <=> failing = {}
        /\ failing # {} =>
            out.res = Err(TupleBoxed(SchemaValidate(self.items[last], arg.items[last]).res.err))
        /\ out.calls = PositionCalls(self.items, arg.items, last)

\* both positions of a two-item tuple fail; the error is the first one's and
\* the second position was not validated
C11_Witness ==
    /\ op = "Tuple"
    /\ arg.kind = "array"
    /\ Len(arg.items) = 2
    /\ Len(self.items) = 2
    /\ self.items[1] # self.items[2]
    /\ FailingPositions(self.items, arg.items) = {1, 2}
    /\ IsErr(out.res)
    /\ out.res.err.e = "SchemaTypeValidationError"
    /\ Len(out.calls) = 1

\* the schema of every element of an array: the single items schema
Repeated(schema, n) == [i \in 1..n |-> schema]

(* C12: ArrayType::validate returns NotAnArray for a non-array,            *)
(* RequireFilled for an empty array when require_filled is set, and        *)
(* otherwise Ok exactly when every element validates against the items     *)
(* schema; on failure the boxed error of the lowest failing element, no    *)
(* later element being validated.                                          *)
C12_ArrayElementsInOrder ==
    op = "Array" =>
        IF arg.kind # "array" THEN out = Run(Err(ArrayNotAnArray), <<>>)
        ELSE IF arg.items = <<>> /\ self.require_filled
        THEN out = Run(Err(ArrayRequireFilled), <<>>)
        ELSE LET schemas == Repeated(self.items, Len(arg.items))
                 failing == FailingPositions(schemas, arg.items)
                 last == LastValidated(schemas, arg.items)
             IN
             /\ IsOk(out.res) <=> failing = {}
             /\ failing # {} =>
                 out.res = Err(ArrayBoxed(SchemaValidate(self.items, arg.items[last]).res.err))
             /\ out.calls = PositionCalls(schemas, arg.items, last)

\* a three-element array whose first element validates and whose second and
\* third, different ones, do not: the error is the second one's
C12_Witness ==
    /\ op = "Array"
    /\ arg.kind = "array"
    /\ Len(arg.items) = 3
    /\ FailingPositions(Repeated(self.items, 3), arg.items) = {2, 3}
    /\ arg.items[2] # arg.items[3]
    /\ IsErr(out.res)
    /\ out.res.err.e = "SchemaTypeValidationError"
    /\ Len(out.calls) = 2

(* C17: OptionalType::validate returns Ok for null whatever the wrapped    *)
(* schema, and for any other candidate exactly the result of the wrapped   *)
(* schema's validate, its error not being wrapped once more.               *)
C17_OptionalDelegates ==
    op = "Optional" =>
        IF arg.kind = "null" THEN out = Run(Ok, <<>>)
        ELSE out = SchemaValidate(self.kind, arg)

\* a number was given to an optional string: the error is String's own
\* type mismatch, as SchemaType::validate returns it
C17_Witness ==
    /\ op = "Optional"
    /\ self.kind = Basic("String")
    /\ arg.kind = "number"
    /\ out.res = Err(SteBasic(IncorrectType("String", arg)))

(* C14: the Array shorthand validates with require_filled = false: Ok for  *)
(* the empty array and for any array whose elements all validate against   *)
(* the item schema, and for no other candidate; the explicit ArrayType     *)
(* with the default require_filled rejects the empty array with            *)
(* RequireFilled.                                                          *)
C14_ArrayShorthandAcceptsEmpty ==
    /\ (op = "Schema" /\ self.st = "Array") =>
        (IsOk(out.res) <=>
            /\ arg.kind = "array"
            /\ FailingPositions(Repeated(self.item, Len(arg.items)), arg.items) = {})
    /\ (op = "Array" /\ self.require_filled = default_true /\ arg = Arr(<<>>)) =>
        out.res = Err(ArrayRequireFilled)
    /\ (op = "Schema" /\ arg = Arr(<<>>) /\ self.st = "Advanced" /\ self.adv.at = "Array"
            /\ self.adv.array_type.require_filled = default_true) =>
        out.res = Err(SteAdvanced(AteArray(ArrayRequireFilled)))

\* the Array shorthand was given the empty array and returned Ok
C14_Witness ==
    /\ op = "Schema"
    /\ self.st = "Array"
    /\ arg = Arr(<<>>)
    /\ out.res = Ok

\* the visited entries of a map whose key the candidate lacks or holds with
\* a value that does not validate
BadEntries(map, value) ==
    { i \in 1..Len(map) :
        \/ map[i].key \notin DOMAIN value.map
        \/ ~IsOk(SchemaValidate(map[i].schema, value.map[map[i].key]).res) }

\* the missing keys declared with a schema that is not Optional / that is
MissingRequired(map, value) ==
    { e.key : e \in { x \in MapEntries(map) :
                        x.key \notin DOMAIN value.map /\ ~IsOptionalSchema(x.schema) } }

MissingOptional(map, value) ==
    { e.key : e \in { x \in MapEntries(map) :
                        x.key \notin DOMAIN value.map /\ IsOptionalSchema(x.schema) } }

(* C15, as stated: ObjectType::validate on an object that lacks a required *)
(* key, no Optional key being missing too, returns MissingObjectKey naming *)
(* a required key that is missing.                                         *)
C15_MissingKeyAlwaysNamed ==
    (op = "Object" /\ arg.kind = "object"
        /\ MissingRequired(self.object, arg) # {}
        /\ MissingOptional(self.object, arg) = {}) =>
        \E k \in MissingRequired(self.object, arg) : out.res = Err(MissingObjectKey(k))

(* C15: ObjectType::validate returns NotAnObject for a non-object; on an   *)
(* object that lacks a required key, no Optional key being missing too, it *)
(* returns the error of the first declared key, in the order the map is    *)
(* visited, that is missing or holds a value that does not validate:       *)
(* MissingObjectKey naming the key, or the boxed error of its value.       *)
C15_FirstVisitedProblemReported ==
    op = "Object" =>
        /\ arg.kind # "object" => out = Run(Err(NotAnObject), <<>>)
        /\ (arg.kind = "object"
                /\ MissingRequired(self.object, arg) # {}
                /\ MissingOptional(self.object, arg) = {}) =>
            LET bad == BadEntries(self.object, arg)
                first == CHOOSE i \in bad : \A j \in bad : i <= j
                e == self.object[first]
            IN IF e.key \notin DOMAIN arg.map
               THEN out.res = Err(MissingObjectKey(e.key))
               ELSE out.res = Err(ObjectBoxed(SchemaValidate(e.schema, arg.map[e.key]).res.err))

\* the key visited first holds a value that does not validate and the key
\* visited second is missing: the error is the first key's, not MissingObjectKey
C15_Witness ==
    /\ op = "Object"
    /\ arg.kind = "object"
    /\ Len(self.object) = 2
    /\ MissingRequired(self.object, arg) = {self.object[2].key}
    /\ BadEntries(self.object, arg) = {1, 2}
    /\ IsErr(out.res)
    /\ out.res.err.e = "SchemaTypeValidationError"

\* the candidate object without the keys the map does not declare
RestrictTo(map, value) ==
    Obj([k \in DOMAIN value.map \cap MapKeys(map) |-> value.map[k]])

(* C16: keys of the candidate that the schema does not declare never       *)
(* change the result of ObjectType::validate or of the Object shorthand:   *)
(* it is the result for the candidate restricted to the declared keys.     *)
C16_ExtraKeysIgnored ==
    (IsObjectCall /\ arg.kind = "object") =>
        LET restricted == RestrictTo(DeclaredMap, arg) IN
        /\ op = "Object" => out = ObjectValidate(self, restricted)
        /\ op = "Schema" =>
            /\ out.res = SchemaValidate(self, restricted).res
            /\ Tail(out.calls) = Tail(SchemaValidate(self, restricted).calls)

\* a candidate with every declared key and an undeclared one was accepted
C16_Witness ==
    /\ op = "Object"
    /\ arg.kind = "object"
    /\ Len(self.object) = 2
    /\ DOMAIN arg.map = MapKeys(self.object) \cup {"extra"}
    /\ IsOk(out.res)
    /\ Len(out.calls) = 2

\* the explicit advanced form a shorthand stands for
ExplicitForm(schema) ==
    CASE schema.st = "Array" -> Advanced(AdvArray(ArrayType(FALSE, schema.item)))
      [] schema.st = "Tuple" -> Advanced(AdvTuple(TupleType(schema.tuple_items)))
      [] schema.st = "Object" -> Advanced(AdvObject(ObjectType(schema.object_map)))

(* C20: a shorthand validates exactly like the explicit advanced form it   *)
(* stands for: Tuple(items) like Advanced(Tuple{items}), Object(map) like  *)
(* Advanced(Object{map}), Array(S) like Advanced(Array{false, S}); the     *)
(* same Ok or the same error value, wrapped as TupleError, ObjectError or  *)
(* ArrayError, after the same nested validations.                          *)
C20_ShorthandLikeExplicit ==
    (op = "Schema" /\ self.st \in {"Array", "Tuple", "Object"}) =>
        LET explicit == SchemaValidate(ExplicitForm(self), arg) IN
        /\ out.res = explicit.res
        /\ Tail(out.calls) = Tail(explicit.calls)

\* an Object shorthand with two required keys, given a candidate lacking
\* both, returned the ObjectError of the explicit form
C20_Witness ==
    /\ op = "Schema"
    /\ self.st = "Object"
    /\ arg.kind = "object"
    /\ Cardinality(MissingRequired(self.object_map, arg)) = 2
    /\ IsErr(out.res)
    /\ out.res.err.advanced_error.ate = "ObjectError"
    /\ out.res = SchemaValidate(ExplicitForm(self), arg).res

----------------------------------------------------------------------------
(* The literal a deserialization started from, and the literals of the     *)
(* advanced array form {"$": "array", "requireFilled"?, "items": S}.       *)

LiteralOf == IF op = "Deserialize" THEN arg ELSE prev.literal

IsArrayFormLiteral(literal) ==
    /\ literal.kind = "object"
    /\ {"$", "items"} \subseteq DOMAIN literal.map
    /\ DOMAIN literal.map \subseteq {"$", "items", "requireFilled"}
    /\ literal.map["$"] = Str("array")
    /\ DeserializeSchemaType(literal.map["items"]).ok

(* C13: the literal {"$": "array", "requireFilled": false, "items": S}     *)
(* deserializes to an ArrayType whose require_filled is false, which       *)
(* accepts the empty array; without the requireFilled key the ArrayType    *)
(* has require_filled true and rejects the empty array with RequireFilled. *)
C13_RequireFilledRead ==
    (op \in {"Deserialize", "Deserialized"} /\ IsArrayFormLiteral(LiteralOf)) =>
        LET wanted == IF "requireFilled" \in DOMAIN LiteralOf.map
                      THEN LiteralOf.map["requireFilled"].b ELSE TRUE
        IN
        /\ op = "Deserialize" =>
            /\ out.res.ok
            /\ out.res.val.st = "Advanced"
            /\ out.res.val.adv.at = "Array"
            /\ out.res.val.adv.array_type.require_filled = wanted
        /\ (op = "Deserialized" /\ arg = Arr(<<>>)) =>
            out.res = IF wanted THEN Err(SteAdvanced(AteArray(ArrayRequireFilled))) ELSE Ok

RECURSIVE ExpectedForms(_)
RECURSIVE FitsAForm(_)
\* a literal that fits one of the forms of a schema literal
FitsAForm(v) == ExpectedForms(v) # {}

\* an object holding the fields of the advanced type its "$" names
FormsAdvanced(map) ==
    LET tag == map["$"].s
        has(k) == k \in DOMAIN map
        flag(k) == has(k) => map[k].kind = "bool"
        size(k) == has(k) => map[k].kind \in {"number", "null"}
        schemas(k) == has(k) /\ map[k].kind = "array"
                        /\ \A i \in 1..Len(map[k].items) : FitsAForm(map[k].items[i])
    IN CASE tag = "string" -> flag("requireFilled") /\ size("minLength") /\ size("maxLength")
         [] tag = "anyOf" -> schemas("variants")
         [] tag = "tuple" -> schemas("items")
         [] tag = "array" -> flag("requireFilled") /\ has("items") /\ FitsAForm(map["items"])
         [] tag = "object" -> has("object") /\ map["object"].kind = "object"
                                /\ \A k \in DOMAIN map["object"].map :
                                        FitsAForm(map["object"].map[k])
         [] tag = "optional" -> has("type") /\ FitsAForm(map["type"])

\* the variants a literal's shape selects: none for a literal fitting no
\* form, two for an object that is both of the "$" and of the "?" form
ExpectedForms(v) ==
    CASE v.kind = "string" -> IF BasicTypeNamed(v.s) # {} THEN {"Basic"} ELSE {}
      [] v.kind = "array" ->
            IF \E i \in 1..Len(v.items) : ~FitsAForm(v.items[i]) THEN {}
            ELSE IF Len(v.items) = 1 THEN {"Array"}
            ELSE IF Len(v.items) >= 2 THEN {"Tuple"}
            ELSE {}
      [] v.kind = "object" ->
            LET advanced ==
                    /\ "$" \in DOMAIN v.map
                    /\ v.map["$"].kind = "string"
                    /\ v.map["$"].s \in AdvancedTags
                    /\ FormsAdvanced(v.map)
                field ==
                    /\ {"?", "label"} \subseteq DOMAIN v.map
                    /\ FitsAForm(v.map["?"])
                    /\ v.map["label"].kind = "string"
                    /\ "hint" \in DOMAIN v.map => v.map["hint"].kind \in {"string", "null"}
                tagged == (IF advanced THEN {"Advanced"} ELSE {})
                            \cup (IF field THEN {"Field"} ELSE {})
            IN IF tagged # {} THEN tagged
               ELSE IF \A k \in DOMAIN v.map : FitsAForm(v.map[k]) THEN {"Object"}
               ELSE {}
      [] OTHER -> {}

(* C18: deserializing a schema literal selects the variant by shape: a     *)
(* basic type's name gives Basic, an object with a "$" naming an advanced  *)
(* type Advanced, an object with "?" and "label" Field, any other object   *)
(* whose values are all schemas the Object shorthand with the literal's    *)
(* keys, an array of one schema the Array shorthand, an array of two or    *)
(* more schemas the Tuple shorthand; a literal fitting no form is          *)
(* rejected.                                                               *)
C18_VariantByShape ==
    op = "Deserialize" =>
        IF ExpectedForms(arg) = {} THEN ~out.res.ok
        ELSE /\ out.res.ok
             /\ out.res.val.st \in ExpectedForms(arg)
             /\ out.res.val.st = "Object" => MapKeys(out.res.val.object_map) = DOMAIN arg.map

\* an object literal holding "$", not an advanced type, its values all schemas
IsUnmatchedDollarLiteral(literal) ==
    /\ literal.kind = "object"
    /\ "$" \in DOMAIN literal.map
    /\ ~DeserializeAdvancedType(literal).ok
    /\ \A k \in DOMAIN literal.map : DeserializeSchemaType(literal.map[k]).ok

\* the map of the literal's keys, each with the schema its value deserializes to
KeyForKey(result, literal) ==
    /\ result.ok
    /\ result.val.st = "Object"
    /\ MapEntries(result.val.object_map)
            = { Entry(k, DeserializeSchemaType(literal.map[k]).val) : k \in DOMAIN literal.map }
    /\ Len(result.val.object_map) = Cardinality(DOMAIN literal.map)

----------------------------------------------------------------------------
RECURSIVE EntryCalls(_, _, _)
\* the calls of validating the values of the first n visited entries
EntryCalls(map, value, n) ==
    IF n = 0 THEN <<>>
    ELSE EntryCalls(map, value, n - 1)
            \o SchemaValidate(map[n].schema, value.map[map[n].key]).calls

\* the first visited entry whose key is missing or whose value does not validate
FirstBad(map, value) ==
    CHOOSE i \in BadEntries(map, value) : \A j \in BadEntries(map, value) : i <= j

(* C25: when ObjectType::validate visits a declared key that the candidate *)
(* lacks and whose schema is directly Advanced(Optional(_)), it returns Ok *)
(* for the whole object and checks no key not yet visited; so with one     *)
(* Optional key and one required key, both missing, the result is Ok or    *)
(* MissingObjectKey according to the key visited first.                    *)
C25_OptionalMissEndsValidation ==
    (op = "Object" /\ arg.kind = "object") =>
        /\ (BadEntries(self.object, arg) # {}
                /\ self.object[FirstBad(self.object, arg)].key \notin DOMAIN arg.map
                /\ IsOptionalSchema(self.object[FirstBad(self.object, arg)].schema)) =>
            out = Run(Ok, EntryCalls(self.object, arg, FirstBad(self.object, arg) - 1))
        /\ (Len(self.object) = 2
                /\ MissingKeys(self.object, arg) = MapKeys(self.object)
                /\ Cardinality({ i \in 1..2 : IsOptionalSchema(self.object[i].schema) }) = 1) =>
            out.res = IF IsOptionalSchema(self.object[1].schema) THEN Ok
                      ELSE Err(MissingObjectKey(self.object[1].key))

\* the Optional key, missing, was visited first and the required key,
\* missing too, was never reported
C25_Witness ==
    /\ op = "Object"
    /\ arg.kind = "object"
    /\ Len(self.object) = 2
    /\ IsOptionalSchema(self.object[1].schema)
    /\ ~IsOptionalSchema(self.object[2].schema)
    /\ MissingKeys(self.object, arg) = MapKeys(self.object)
    /\ out = Run(Ok, <<>>)

C28_MessageNamesSchemaCountAsExpected ==
    (pc = "rendered" /\ op = "Tuple" /\ out.res.err.e = "IncorrectLength") =>
        prev.message = <<"Expected an array with ", ToString(Len(self.items)),
                         " items, but got an array with ", ToString(Len(arg.items)),
                         " items">>

\* one add_change call: the version one higher, the change appended, the
\* initial schema and the earlier changes as they were
C30_AddChangeStep ==
    (op = "Schema" /\ op' = "Schema") =>
        /\ self'.version = U32(Len(self.changes) + 1)
        /\ self'.changes = Append(self.changes, arg')
        /\ self'.initial = self.initial

(* C30: a Schema created from a SchemaType and changed only by add_change  *)
(* has a version equal to the number of recorded changes: 0 and no changes *)
(* at first, and each add_change raises the version by one, appends one    *)
(* change and leaves the initial schema and the earlier changes untouched. *)
C30_VersionCountsChanges ==
    /\ [](op = "Schema" => self.version = U32(Len(self.changes)))
    /\ [](op = "Schema" /\ self.changes = <<>> => self = Schema(U32(0), arg, <<>>))
    /\ [][C30_AddChangeStep]_vars

\* two changes recorded on a schema, the version 2
C30_Witness ==
    /\ op = "Schema"
    /\ Len(self.changes) = 2
    /\ self.changes[1] # self.changes[2]
    /\ self.version = U32(2)

----------------------------------------------------------------------------
(* C21: after a Rename of target p to new path q that succeeds, q resolves *)
(* to the value p held before and p no longer resolves, for every p and q. *)
C21_RenameMovesValue ==
    (op = "Apply" /\ self.op.op = "rename" /\ IsOk(out.res)) =>
        \A overflow_checks \in BOOLEAN :
            /\ IsResolved(Resolve(self.op.new_path, out.doc, overflow_checks))
            /\ Resolve(self.op.new_path, out.doc, overflow_checks).val
                    = Resolve(self.target, arg, overflow_checks).val
            /\ ~IsResolved(Resolve(self.target, out.doc, overflow_checks))

(* C22: whenever Value::set_path returns an error, the target document is  *)
(* exactly as before: when the parent path does not resolve, when the      *)
(* parent is a scalar or null, when the last part is no index for an array *)
(* parent, and when the index does not exist in the array.                 *)
C22_FailedSetPathLeavesTarget ==
    (op = "SetPath" /\ IsErr(out.res)) => out.doc = self

\* an index that the array at the parent path does not have: the call is
\* refused and the nested array is as it was
C22_Witness ==
    /\ op = "SetPath"
    /\ Len(arg.path.parts) = 2
    /\ out.res = Err(SetPathError("CannotReplaceMissingIndex"))
    /\ out.doc = self

\* a part that is c alone or c and digits
IsCountPart(part, c) ==
    /\ part # <<>>
    /\ part[1] = c
    /\ \A i \in 2..Len(part) : part[i] \in 48..57

\* the n of such a part, 1 when it has no digits
CountOf(part) == IF Len(part) = 1 THEN 1 ELSE DigitsValue(Tail(part))

IsNumericPart(part) == part # <<>> /\ \A i \in 1..Len(part) : part[i] \in 48..57

\* what resolve is to return for a path of the one part on an array
ArrayPartExpected(part, list) ==
    IF IsCountPart(part, Lt)
    THEN IF CountOf(part) \in 1..Len(list)
         THEN OkOf(list[Len(list) - CountOf(part) + 1])
         ELSE Err(JsonPathError("NoLastItem"))
    ELSE IF IsCountPart(part, Gt)
    THEN IF CountOf(part) \in 1..Len(list)
         THEN OkOf(list[CountOf(part)])
         ELSE Err(JsonPathError("NoFirstItem"))
    ELSE IF IsNumericPart(part)
    THEN IF DigitsValue(part) < Len(list)
         THEN OkOf(list[DigitsValue(part) + 1])
         ELSE Err(IndexNotFound(DigitsValue(part)))
    ELSE Err(PathNotAnIndex(part))

\* the result of a resolve without the place of the reference
Outcome(r) == IF IsResolved(r) THEN OkOf(r.val) ELSE r

(* C23: JsonPath::resolve on an array takes `<n` as the n-th element from  *)
(* the back, `>n` as the n-th from the front (n is 1 when left out) and a  *)
(* number as a zero-based index; it returns NoLastItem, NoFirstItem or     *)
(* IndexNotFound when the array has no such element and NotAnIndex when    *)
(* the part is none of these. On an object it looks the part up as a key   *)
(* and returns KeyNotFound when it is absent.                              *)
C23_PartsOnArrayAndObject ==
    (op = "Resolve" /\ Len(self.parts) = 1) =>
        /\ arg.kind = "array" =>
                Outcome(out.res) = ArrayPartExpected(self.parts[1], arg.items)
        /\ arg.kind = "object" =>
                Outcome(out.res) = IF self.parts[1] \in DOMAIN arg.map
                                   THEN OkOf(arg.map[self.parts[1]])
                                   ELSE Err(KeyNotFound(self.parts[1]))

(* C24: a JsonPath rendered to a string and parsed back is the same        *)
(* JsonPath, for every path; and parsing accepts a string only when its    *)
(* first dot-separated segment is `$`.                                     *)
C24_RenderParseRoundTrip ==
    /\ pc = "parsed" => prev.parsed = OkOf(self)
    /\ (op = "FromStr" /\ out.res.ok) => Head(Split(arg.s, Dot)) = <<Dollar>>

\* what the operation of the i-th pass did to the document it was applied to
PassEffects(calls, i) ==
    { Apply(calls[i].operation.op, calls[i].operation.target, calls[i].working_copy,
            overflow_checks) : overflow_checks \in BOOLEAN }

(* C26: Migration::migrate applies its operations in list order, each to   *)
(* the document the one before it left; it returns the last document when  *)
(* all succeed, and on the first operation that fails it returns that      *)
(* error and applies no later operation.                                   *)
C26_OperationsInOrder ==
    op = "Migrate" =>
        LET operations == self.operations
            calls == out.calls
        IN
        /\ Len(calls) <= Len(operations)
        /\ \A i \in 1..Len(calls) : calls[i].operation = operations[i]
        /\ calls # <<>> => calls[1].working_copy = arg
        /\ \A i \in 2..Len(calls) :
                \E before \in PassEffects(calls, i - 1) :
                    IsOk(before.res) /\ calls[i].working_copy = before.doc
        /\ IF calls = <<>>
           THEN operations = <<>> /\ out.res = OkOf(arg)
           ELSE \E last \in PassEffects(calls, Len(calls)) :
                    IF IsOk(last.res)
                    THEN Len(calls) = Len(operations) /\ out.res = OkOf(last.doc)
                    ELSE IF IsErr(last.res)
                    THEN out.res = Err(MigrationError(last.res.err))
                    ELSE out.res = last.res

\* two operations, both applied, the second to the document the first
\* changed, and the last document returned
C26_Witness ==
    /\ op = "Migrate"
    /\ Len(self.operations) = 2
    /\ Len(out.calls) = 2
    /\ out.calls[2].working_copy # arg
    /\ IsResolved(out.res)
    /\ out.res.val # out.calls[2].working_copy

(* C27: for every JsonPath and document, JsonPath::resolve, resolve_mut,   *)
(* Value::set_path and OperationKind::apply return Ok or an error and      *)
(* never abort, the parts `<0` and `>0` on an array included, and a Delete *)
(* whose last part is an index at or beyond the length of the array.       *)
C27_NeverAborts ==
    op \in {"Resolve", "ResolveMut", "SetPath", "Apply"} => ~IsPanic(out.res)

====
